---- MODULE Spec2Model ----
(***************************************************************************)
(* A model of rvagg/repo-health-metrics: the cursor-paginated collectors   *)
(* of activity.js, the user-activity aggregation with its lookback fetch   *)
(* and updatedAt post-filter, the two enrichment fan-outs, the             *)
(* repository-health PR listing with its early exit, and the response-time *)
(* classification of index.js.                                             *)
(*                                                                         *)
(* Each component has its own specification (SpecCollector, SpecActivity,  *)
(* SpecPRData, SpecAnalyze, SpecEnrich); the variables of the other        *)
(* components stay at their idle values.                                   *)
(***************************************************************************)
EXTENDS Integers, Sequences, FiniteSets, TLC

VARIABLES
  \* --- one paginated collector of activity.js ---
  colKind,        \* which collector runs: "comments", "reviews" or "commits"
  colServer,      \* the server's responses, one per page of the collection
  colAll,         \* allComments / allReviewDetails / allCommits
  colCursor,      \* commentCursor / reviewCursor / commitCursor (0 is null)
  colHasNextPage, \* hasNextPage
  colPc,          \* "loop", "returned" or "thrown"
  colRequests,    \* the cursors of the requests issued so far, in order
  colResult,      \* the returned list (<<>> until the collector returns)
  colError        \* the error the collector's promise rejected with (Undefined until then)

colVars == <<colKind, colServer, colAll, colCursor, colHasNextPage, colPc,
             colRequests, colResult, colError>>

VARIABLES
  \* --- fetchUserActivity of activity.js ---
  since,          \* the caller's window start, a Date
  uaServer,       \* the server's collections: [prs, reviews, issues, buckets]
  activity,       \* the bundle [pullRequests, reviews, issues, commitsByRepo]
  uaCursor,       \* cursor (0 is null)
  uaHasNextPage,  \* hasNextPage
  uaPc,           \* "loop", "returned" or "thrown"
  uaRequests,     \* the variables of the requests issued so far, in order
  uaFetched,      \* what the responses so far carried: [pullRequests, reviews, issues]
  uaResponses,    \* the responses so far, in order: [status, statusText, errors]
  uaError,        \* the error fetchUserActivity rejected with (Undefined until then)
  \* --- main of activity.js, run without --enrich and with one json output ---
  mainPc,         \* "fetch" (awaiting fetchUserActivity), "done" or "exit"
  mainOutputs,    \* what was written to the output stream, in order
  uaNow           \* what `new Date()` gives during the run, a Date

uaVars == <<since, uaServer, activity, uaCursor, uaHasNextPage, uaPc, uaRequests, uaFetched,
            uaResponses, uaError, mainPc, mainOutputs, uaNow>>

VARIABLES
  \* --- fetchPRData of index.js ---
  now,            \* the Date at which the script was loaded
  pdServer,       \* the repository's pull requests, in the order the server lists them
  pdPullRequests, \* pullRequests, the accumulator
  pdCursor,       \* cursor (0 is null)
  pdHasNextPage,  \* hasNextPage
  pdPc,           \* "loop", "filter", "returned" or "thrown"
  pdRequests,     \* the cursors of the requests issued so far, in order
  pdReceived,     \* the node lists of the pages received so far, in order
  pdResult,       \* the returned list
  pdResponses     \* the responses so far, in order: [status, errors, data]

pdVars == <<now, pdServer, pdPullRequests, pdCursor, pdHasNextPage, pdPc, pdRequests,
            pdReceived, pdResult, pdResponses>>

VARIABLES
  \* --- calculateResponseTimes of index.js ---
  pullRequests,   \* the argument pullRequests
  maintainers,    \* the argument maintainers
  anPc,           \* "start" or "done"
  responseTimes   \* the returned records

anVars == <<pullRequests, maintainers, anPc, responseTimes>>

VARIABLES
  \* --- enrichPullRequestData / enrichCommitContributions of activity.js ---
  enKind,         \* which of the two runs: "pullRequests" or "commits"
  enInput,        \* the bundle as it was passed in
  enFault,        \* the one response of the server that is not the regular one (or NoFault)
  enActivity,     \* the bundle `activity`, mutated in place
  enTasks,        \* per item, the state of its task's sub-fetches: [pc, cursor, all]
  enIssued,       \* the requests issued so far
  enConsumed,     \* the requests whose response was consumed so far
  enPc,           \* "start", "userId", "awaiting", "resolved" or "rejected"
  enResult,       \* the value the function's promise resolved with (Undefined until then)
  enError         \* the error it rejected with (Undefined until then)

enVars == <<enKind, enInput, enFault, enActivity, enTasks, enIssued, enConsumed, enPc,
            enResult, enError>>

vars == <<colVars, uaVars, pdVars, anVars, enVars>>

(***************************************************************************)
(* Small helpers on sequences.                                             *)
(***************************************************************************)
Min(a, b) == IF a <= b THEN a ELSE b

RECURSIVE Flatten(_)
Flatten(ss) == IF ss = <<>> THEN <<>> ELSE Head(ss) \o Flatten(Tail(ss))

RECURSIVE SeqsUpTo(_, _)
SeqsUpTo(S, n) ==
  IF n = 0 THEN {<<>>}
  ELSE LET shorter == SeqsUpTo(S, n - 1)
       IN  shorter \cup {Append(s, x) : s \in {t \in shorter : Len(t) = n - 1}, x \in S}

\* JavaScript's null / undefined where a string (a login, a type name) is expected.
Null == "null"

\* A number that may be null: <<>> for null, <<x>> for the number x.
NullNumber == <<>>
Number(x) == <<x>>

\* A value that may be undefined (a field an object may lack, a variable not yet
\* bound): <<>> for undefined, <<x>> for the value x.
Undefined == <<>>
Defined(x) == <<x>>

(***************************************************************************)
(* fetchQuery: one POST per call.  A response is                           *)
(*   [status, statusText, errors, present, nodes, hasNextPage]             *)
(* where status is the HTTP status, errors is the list of the messages of  *)
(* the body's errors member (NoErrors when the body has no such member; a  *)
(* GraphQL server never sends an empty one), and present says whether the  *)
(* nested connection the collector reads is there.                         *)
(***************************************************************************)
HttpOk == 200
OtherStatuses == {502}

\* response.statusText
StatusText(status) == IF status = HttpOk THEN "OK" ELSE "Bad Gateway"

NoErrors == <<>>
ErrorMessages == <<"Could not resolve to a Repository", "Something went wrong">>

OkPage(nodes, more) ==
  [status |-> HttpOk, statusText |-> StatusText(HttpOk), errors |-> NoErrors,
   present |-> TRUE, nodes |-> nodes, hasNextPage |-> more]
MissingPage ==
  [status |-> HttpOk, statusText |-> StatusText(HttpOk), errors |-> NoErrors,
   present |-> FALSE, nodes |-> <<>>, hasNextPage |-> FALSE]
ErrorsPage ==
  [status |-> HttpOk, statusText |-> StatusText(HttpOk), errors |-> ErrorMessages,
   present |-> FALSE, nodes |-> <<>>, hasNextPage |-> FALSE]
FailPage ==
  LET st == CHOOSE x \in OtherStatuses : TRUE
  IN  [status |-> st, statusText |-> StatusText(st), errors |-> NoErrors,
       present |-> FALSE, nodes |-> <<>>, hasNextPage |-> FALSE]

IsOkPage(r) == r.status = HttpOk /\ r.errors = NoErrors /\ r.present

\* new Error(`Failed to fetch user activity data: ${detail}`)
Error(detail) == [message |-> <<"Failed to fetch user activity data: ", detail>>]

\* A variant that throws on the HTTP status only.
fetchQueryThrowsOnStatus(r) == r.status # HttpOk

\* TRUE when fetchQuery throws on this response.
fetchQueryThrows(r) == r.status # HttpOk \/ r.errors # NoErrors

\* The error fetchQuery throws on this response: the status is looked at before
\* the body is decoded.
fetchQueryError(r) ==
  IF r.status # HttpOk THEN Error(r.statusText) ELSE Error(r.errors[1])

(***************************************************************************)
(* The paginated collectors fetchPRComments, fetchPRReviewDetails and      *)
(* fetchCommitContributionsForRepo.                                        *)
(***************************************************************************)
\* The server has up to MaxPages pages, of up to MaxNodes nodes each.
MaxPages == 3
MaxNodes == 1

Nodes == {"n1", "n2"}
NodeLists == SeqsUpTo(Nodes, MaxNodes)

PageResponses ==
  {OkPage(ns, more) : ns \in NodeLists, more \in BOOLEAN} \cup {MissingPage, ErrorsPage, FailPage}

\* A response that ends the collection: no page follows it.
LastResponses == {r \in PageResponses : ~r.hasNextPage}

\* The server's page sequences: any responses, the last of which ends the collection.
ServerSequences ==
  {Append(s, r) : s \in SeqsUpTo(PageResponses, MaxPages - 1), r \in LastResponses}

CollectorKinds == {"comments", "reviews", "commits"}

\* The server answers the request that carries cursor c with the page after c;
\* the endCursor of page j is j and null is 0.
ServerResponse(c) == colServer[c + 1]
ServerEndCursor(c) == c + 1

\* A variant that skips the nodes the accumulator already holds.
ConcatDeduplicated(all, nodes) ==
  all \o SelectSeq(nodes, LAMBDA x : \A i \in 1..Len(all) : all[i] # x)

\* allComments.concat(comments.nodes)
Concat(all, nodes) == all \o nodes

\* The body of one loop iteration, shared by the three collectors: the request,
\* the break on a missing connection, the concat and the pageInfo update.
CollectorIteration ==
  LET r == ServerResponse(colCursor) IN
  /\ colPc = "loop"
  /\ colHasNextPage
  /\ colRequests' = Append(colRequests, colCursor)
  /\ IF fetchQueryThrows(r)
       THEN \* no try/catch: the collector's promise rejects with fetchQuery's error
            /\ colPc' = "thrown"
            /\ colError' = Defined(fetchQueryError(r))
            /\ UNCHANGED <<colAll, colCursor, colHasNextPage, colResult>>
     ELSE IF ~r.present
       THEN \* break, then return what was accumulated
            /\ colPc' = "returned"
            /\ colResult' = colAll
            /\ UNCHANGED <<colAll, colCursor, colHasNextPage, colError>>
     ELSE /\ colAll' = Concat(colAll, r.nodes)
          /\ colHasNextPage' = r.hasNextPage
          /\ colCursor' = ServerEndCursor(colCursor)
          /\ UNCHANGED <<colPc, colResult, colError>>
  /\ UNCHANGED <<colKind, colServer>>
  /\ UNCHANGED <<uaVars, pdVars, anVars, enVars>>

fetchPRComments == colKind = "comments" /\ CollectorIteration

fetchPRReviewDetails == colKind = "reviews" /\ CollectorIteration

fetchCommitContributionsForRepo == colKind = "commits" /\ CollectorIteration

\* The loop condition is false: return the accumulator.
CollectorReturn ==
  /\ colPc = "loop"
  /\ ~colHasNextPage
  /\ colPc' = "returned"
  /\ colResult' = colAll
  /\ UNCHANGED <<colKind, colServer, colAll, colCursor, colHasNextPage, colRequests, colError>>
  /\ UNCHANGED <<uaVars, pdVars, anVars, enVars>>

(***************************************************************************)
(* Dates.  A timestamp on the wire (an ISO-8601 string) is modelled as the *)
(* number of minutes since 2023-01-01T00:00Z; a Date is its epoch value,   *)
(* kept in seconds since the same instant (TLC's integers have 32 bits, and*)
(* no timestamp of the model has a sub-second part).  The process runs     *)
(* with a UTC local time zone.                                             *)
(***************************************************************************)
SecondsPerMinute == 1 * 60
SecondsPerHour == 60 * 60
SecondsPerDay == 24 * 60 * 60
MinutesPerDay == 24 * 60
MinutesPerHour == 1 * 60

\* new Date(isoString)
DateParse(w) == w * SecondsPerMinute

\* date.toISOString()
ToISOString(d) == d \div SecondsPerMinute

\* Days in the months of 2023, and the day number (0 is 1 January 2023) at which
\* month m starts; month 0 is December 2022.
MonthLength == <<31, 28, 31, 30, 31, 30, 31, 31, 30, 31, 30, 31>>

RECURSIVE MonthStart(_)
MonthStart(m) ==
  IF m = 0 THEN 0 - 31
  ELSE IF m = 1 THEN 0
  ELSE MonthStart(m - 1) + MonthLength[m - 1]

\* The month (1..12) of day number n of 2023.
MonthOf(n) == CHOOSE m \in 1..12 : MonthStart(m) <= n /\ n < MonthStart(m) + MonthLength[m]

\* The wire timestamp of midnight of the given day of 2023 (what `new Date('2023-MM-DD')` parses).
Midnight(month, day) == (MonthStart(month) + day - 1) * MinutesPerDay

\* from = new Date(since); from.setMonth(from.getMonth() - 1)
\* setMonth keeps the day of the month and the time of day; a day the target month
\* does not have rolls over into the following month.
SetMonthBack(d) ==
  LET n == d \div SecondsPerDay
      m == MonthOf(n)
      dayOfMonth == n - MonthStart(m)
  IN  (MonthStart(m - 1) + dayOfMonth) * SecondsPerDay + (d % SecondsPerDay)

(***************************************************************************)
(* fetchUserActivity.  The server holds the three contribution collections *)
(* and serves, for a cursor c, the page of each that follows offset c (the *)
(* one $cursor variable is passed to all three connections); every         *)
(* response also carries the unpaginated commitContributionsByRepository.  *)
(***************************************************************************)
\* The server holds up to MaxContributions contributions; pageSize stands for the
\* `first: 100` of the three connections, scaled down so that collections span pages.
MaxContributions == 3
pageSize == 1

ContributionTypes == {"pullRequest", "pullRequestReview", "issue"}

\* The window starts the model works with.
SinceDates == {DateParse(Midnight(3, 31)), DateParse(Midnight(1, 15))}

\* The days the model runs the program on: parseArgs takes any date of the form
\* YYYY-MM-DD that parses and compares it with nothing, so a run's day can be
\* before or after the window start it was given.
NowDates == {DateParse(Midnight(2, 15) + 9 * MinutesPerHour), DateParse(Midnight(6, 1))}

\* A contribution's node, with its timestamps relative to the window start s (a
\* wire timestamp): created long before and updated inside the window; created
\* and updated before it; created and updated at its very start.
Contribution(type, n, created, updated) ==
  [type |-> type, number |-> n, createdAt |-> created, updatedAt |-> updated]

TimePairs(s) ==
  { <<s - 60 * MinutesPerDay, s + MinutesPerDay>>,
    <<s - 10 * MinutesPerDay, s - 1>>,
    <<s, s>> }

\* The server's contributions: up to MaxContributions of them; number k is the
\* k-th one created.
RECURSIVE ContributionLists(_, _)
ContributionLists(s, n) ==
  IF n = 0 THEN {<<>>}
  ELSE LET shorter == ContributionLists(s, n - 1)
       IN  shorter \cup
           { Append(l, Contribution(ty, n, tp[1], tp[2])) :
               l \in {t \in shorter : Len(t) = n - 1},
               ty \in ContributionTypes, tp \in TimePairs(s) }

OfType(l, ty) == SelectSeq(l, LAMBDA c : c.type = ty)

\* The number of pages of a collection of n items (an empty collection has one, empty, page).
NumPages(n) == IF n = 0 THEN 1 ELSE (n + pageSize - 1) \div pageSize

\* The repository buckets the j-th response carries: none, or one bucket.
Bucket(j) == [repository |-> "org/repo", totalCount |-> j]
BucketLists(j) == {<<>>, <<Bucket(j)>>}

\* The page of collection l after offset c, with its pageInfo.
Connection(l, c) ==
  LET last == Min(c + pageSize, Len(l))
      nodes == SubSeq(l, c + 1, last)
  IN  [nodes |-> nodes,
       pageInfo |-> [hasNextPage |-> Len(l) > c + pageSize,
                     endCursor |-> IF nodes = <<>> THEN 0 ELSE last]]

\* The contributionsCollection of the response to the j-th request, with cursor c.
Contributions(c, j) ==
  [pullRequestContributions |-> Connection(uaServer.prs, c),
   pullRequestReviewContributions |-> Connection(uaServer.reviews, c),
   issueContributions |-> Connection(uaServer.issues, c),
   commitContributionsByRepository |-> uaServer.buckets[j]]

\* The page whose pageInfo drives the loop.
LoopPageInfo(contributions) == contributions.pullRequestContributions.pageInfo

\* A variant that filters on the creation time.
CreatedSince(items, s) == SelectSeq(items, LAMBDA i : DateParse(i.createdAt) >= s)

\* items.filter((i) => new Date(i.updatedAt) >= since)
UpdatedSince(items, s) == SelectSeq(items, LAMBDA i : DateParse(i.updatedAt) >= s)

EmptyActivity == [pullRequests |-> <<>>, reviews |-> <<>>, issues |-> <<>>, commitsByRepo |-> <<>>]
NothingFetched == [pullRequests |-> <<>>, reviews |-> <<>>, issues |-> <<>>]

\* The bucket lists of the responses: one per request the server can get.
BucketSequences(n) ==
  {f \in [1..n -> {<<>>} \cup {<<Bucket(j)>> : j \in 1..n}] : \A j \in 1..n : f[j] \in BucketLists(j)}

\* What the server can answer a request of fetchUserActivity with: the
\* contributions, an errors list, or a status other than 200.
ActivityResponses ==
  { [status |-> r.status, statusText |-> r.statusText, errors |-> r.errors] :
      r \in {OkPage(<<>>, FALSE), ErrorsPage, FailPage} }

\* One iteration of the while loop: the request and, unless fetchQuery throws,
\* the four concatenations.
fetchUserActivityPage ==
  LET from == SetMonthBack(since)
      variables == [cursor |-> uaCursor, since |-> ToISOString(from)]
      contributions == Contributions(uaCursor, Len(uaRequests) + 1)
      pageInfo == LoopPageInfo(contributions)
  IN  /\ uaPc = "loop"
      /\ uaHasNextPage
      /\ uaRequests' = Append(uaRequests, variables)
      /\ \E r \in ActivityResponses :
           /\ uaResponses' = Append(uaResponses, r)
           /\ IF fetchQueryThrows(r)
                THEN \* no try/catch: fetchUserActivity rejects with fetchQuery's error
                     /\ uaPc' = "thrown"
                     /\ uaError' = Defined(fetchQueryError(r))
                     /\ UNCHANGED <<activity, uaFetched, uaHasNextPage, uaCursor>>
                ELSE /\ activity' =
                          [pullRequests |-> Concat(activity.pullRequests, contributions.pullRequestContributions.nodes),
                           reviews |-> Concat(activity.reviews, contributions.pullRequestReviewContributions.nodes),
                           issues |-> Concat(activity.issues, contributions.issueContributions.nodes),
                           commitsByRepo |-> IF Len(activity.commitsByRepo) = 0
                                               THEN contributions.commitContributionsByRepository
                                               ELSE activity.commitsByRepo]
                     /\ uaFetched' =
                          [pullRequests |-> uaFetched.pullRequests \o contributions.pullRequestContributions.nodes,
                           reviews |-> uaFetched.reviews \o contributions.pullRequestReviewContributions.nodes,
                           issues |-> uaFetched.issues \o contributions.issueContributions.nodes]
                     /\ uaHasNextPage' = pageInfo.hasNextPage
                     /\ uaCursor' = pageInfo.endCursor
                     /\ UNCHANGED <<uaPc, uaError>>
      /\ UNCHANGED <<since, uaServer, mainPc, mainOutputs, uaNow>>
      /\ UNCHANGED <<colVars, pdVars, anVars, enVars>>

\* After the loop: the three post-filters, and the return.
fetchUserActivityReturn ==
  /\ uaPc = "loop"
  /\ ~uaHasNextPage
  /\ activity' =
       [pullRequests |-> UpdatedSince(activity.pullRequests, since),
        reviews |-> UpdatedSince(activity.reviews, since),
        issues |-> UpdatedSince(activity.issues, since),
        commitsByRepo |-> activity.commitsByRepo]
  /\ uaPc' = "returned"
  /\ UNCHANGED <<since, uaServer, uaCursor, uaHasNextPage, uaRequests, uaFetched, uaResponses,
                 uaError, mainPc, mainOutputs, uaNow>>
  /\ UNCHANGED <<colVars, pdVars, anVars, enVars>>

\* generateJsonOutput(activity, login, since): the period and the stats of the
\* document.
generateJsonOutput(bundle, start) ==
  [period |-> [start |-> ToISOString(start), end |-> ToISOString(uaNow)],
   stats |-> [totalPRs |-> Len(bundle.pullRequests),
              totalReviews |-> Len(bundle.reviews),
              totalIssues |-> Len(bundle.issues),
              totalCommitRepos |-> Len(bundle.commitsByRepo)]]

\* A variant of the await that goes on however the promise settled.
AwaitSettled(pc) == pc \in {"returned", "thrown"}

\* `const activity = await fetchUserActivity(login, since)` goes on when the
\* promise is fulfilled.
AwaitFulfilled(pc) == pc = "returned"

\* main after the await: the loop over the outputs.
mainOutput ==
  /\ mainPc = "fetch"
  /\ AwaitFulfilled(uaPc)
  /\ mainOutputs' = Append(mainOutputs, generateJsonOutput(activity, since))
  /\ mainPc' = "done"
  /\ UNCHANGED <<since, uaServer, activity, uaCursor, uaHasNextPage, uaPc, uaRequests, uaFetched,
                 uaResponses, uaError, uaNow>>
  /\ UNCHANGED <<colVars, pdVars, anVars, enVars>>

\* main().catch: the rejection of the await is logged and the process exits.
mainCatch ==
  /\ mainPc = "fetch"
  /\ uaPc = "thrown"
  /\ mainPc' = "exit"
  /\ UNCHANGED <<since, uaServer, activity, uaCursor, uaHasNextPage, uaPc, uaRequests, uaFetched,
                 uaResponses, uaError, mainOutputs, uaNow>>
  /\ UNCHANGED <<colVars, pdVars, anVars, enVars>>

(***************************************************************************)
(* fetchPRData: the repository-health PR listing, with its early exit.     *)
(***************************************************************************)
\* The server lists up to MaxListed PRs; batchSize stands for the script's
\* batchSize of 100, scaled down so that the listing spans pages.
MaxListed == 3
batchSize == 2

\* const rangeEnd: 5 days before the load time.
rangeEnd(t) == t - 5 * SecondsPerDay

\* const rangeStart: rangeEnd with its month set one back.
rangeStart(t) == SetMonthBack(rangeEnd(t))

\* The load times the model works with: 5 April 2023 12:00 and 20 January 2023 00:00.
RunDates == {DateParse(Midnight(4, 5) + 12 * MinutesPerHour), DateParse(Midnight(1, 20))}

\* The createdAt values of the listed PRs, around the two ends of the range.
ListedTimes(t) ==
  { ToISOString(rangeStart(t)) - 1, ToISOString(rangeStart(t)),
    ToISOString(rangeEnd(t)), ToISOString(rangeEnd(t)) + 1 }

ListedPR(n, created, draft) == [number |-> n, createdAt |-> created, isDraft |-> draft]

RECURSIVE Listings(_, _)
Listings(t, n) ==
  IF n = 0 THEN {<<>>}
  ELSE LET shorter == Listings(t, n - 1)
       IN  shorter \cup
           { Append(l, ListedPR(n, c, d)) :
               l \in {x \in shorter : Len(x) = n - 1}, c \in ListedTimes(t), d \in BOOLEAN }

\* data.data.repository.pullRequests for the request with cursor c.
PullRequestsPage(c) ==
  LET last == Min(c + batchSize, Len(pdServer))
      nodes == SubSeq(pdServer, c + 1, last)
  IN  [nodes |-> nodes,
       pageInfo |-> [hasNextPage |-> Len(pdServer) > c + batchSize,
                     endCursor |-> IF nodes = <<>> THEN 0 ELSE last]]

\* A variant that looks at the first PR of the batch.
FirstIsBeforeRange(fetchedPRs, t) ==
  /\ Len(fetchedPRs) > 0
  /\ DateParse(fetchedPRs[1].createdAt) < SetMonthBack(t - 5 * SecondsPerDay)

\* A variant that compares the last PR of the batch with the range's end.
LastIsBeforeRangeEnd(fetchedPRs, t) ==
  /\ Len(fetchedPRs) > 0
  /\ DateParse(fetchedPRs[Len(fetchedPRs)].createdAt) < t - 5 * SecondsPerDay

\* The check after each batch: the batch is non-empty and its last PR was created
\* before rangeStart.
LastIsBeforeRange(fetchedPRs, t) ==
  /\ Len(fetchedPRs) > 0
  /\ DateParse(fetchedPRs[Len(fetchedPRs)].createdAt) < rangeStart(t)

\* The final filter: not a draft, and created within the range.
InRange(prs, t) ==
  SelectSeq(prs, LAMBDA pr : /\ ~pr.isDraft
                             /\ DateParse(pr.createdAt) >= rangeStart(t)
                             /\ DateParse(pr.createdAt) <= rangeEnd(t))

\* The bodies a response can have: the data alone; an errors list and null data;
\* an errors list next to data that holds the pullRequests connection (GraphQL
\* reports field errors next to partial data); neither (the body of a response
\* whose status is not 200 is not decoded).
NoBody == [errors |-> NoErrors, data |-> FALSE]

PRDataBodies ==
  { [errors |-> NoErrors, data |-> TRUE],
    [errors |-> ErrorMessages, data |-> FALSE],
    [errors |-> ErrorMessages, data |-> TRUE],
    NoBody }

\* TRUE when the iteration throws: on a status other than 200, and (a TypeError)
\* when data.data is null; data.errors is never read.
PRDataThrows(status, body) == status # HttpOk \/ ~body.data

\* One iteration of the while loop; the server answers with status 200 or not.
fetchPRDataPage ==
  /\ pdPc = "loop"
  /\ pdHasNextPage
  /\ pdRequests' = Append(pdRequests, pdCursor)
  /\ \E status \in {HttpOk} \cup OtherStatuses, body \in PRDataBodies :
       /\ status # HttpOk => body = NoBody
       /\ pdResponses' = Append(pdResponses, [status |-> status, errors |-> body.errors,
                                              data |-> body.data])
       /\ IF PRDataThrows(status, body)
            THEN /\ pdPc' = "thrown"
                 /\ UNCHANGED <<pdPullRequests, pdCursor, pdHasNextPage, pdReceived>>
            ELSE LET page == PullRequestsPage(pdCursor)
                     fetchedPRs == page.nodes
                 IN  /\ pdPullRequests' = Concat(pdPullRequests, fetchedPRs)
                     /\ pdReceived' = Append(pdReceived, fetchedPRs)
                     /\ pdHasNextPage' = page.pageInfo.hasNextPage
                     /\ pdCursor' = page.pageInfo.endCursor
                     /\ pdPc' = IF LastIsBeforeRange(fetchedPRs, now) \/ ~page.pageInfo.hasNextPage
                                  THEN "filter" ELSE "loop"
  /\ UNCHANGED <<now, pdServer, pdResult>>
  /\ UNCHANGED <<colVars, uaVars, anVars, enVars>>

\* After the loop (ended or broken out of): the filter, and the return.
fetchPRDataReturn ==
  /\ pdPc = "filter"
  /\ pdResult' = InRange(pdPullRequests, now)
  /\ pdPc' = "returned"
  /\ UNCHANGED <<now, pdServer, pdPullRequests, pdCursor, pdHasNextPage, pdRequests, pdReceived,
                 pdResponses>>
  /\ UNCHANGED <<colVars, uaVars, anVars, enVars>>

(***************************************************************************)
(* calculateResponseTimes.  An event is a comment node, a review node or a *)
(* timeline node; a comment or review carries author (Null for a deleted   *)
(* account), a timeline node carries typename and actor.                   *)
(***************************************************************************)
\* A drawn PR has up to MaxEvents events; the list has up to MaxPRs PRs.
MaxEvents == 2
MaxPRs == 2

CommentNode(login, at) ==
  [typename |-> Null, author |-> login, actor |-> Null, state |-> Null, createdAt |-> at]
ReviewNode(login, at) ==
  [typename |-> Null, author |-> login, actor |-> Null, state |-> "COMMENTED", createdAt |-> at]
TimelineNode(kind, login, at) ==
  [typename |-> kind, author |-> Null, actor |-> login, state |-> Null, createdAt |-> at]

PullRequest(n, login, at, comments, reviews, timeline) ==
  [number |-> n, createdAt |-> at, author |-> login,
   comments |-> comments, reviews |-> reviews, timelineItems |-> timeline]

\* Math.round(milliseconds / (1000 * 60 * 60)), on a difference given in seconds:
\* Math.round rounds a half towards +Infinity.
convertToRoundedHours(seconds) == (2 * seconds + SecondsPerHour) \div (2 * SecondsPerHour)

\* maintainers.includes(x)
Includes(list, x) == \E i \in 1..Len(list) : list[i] = x

\* array.find(predicate), given for each position whether the predicate holds of
\* the element there: the first position where it does, 0 for undefined.
RECURSIVE FindFrom(_, _)
FindFrom(matches, i) ==
  IF i > Len(matches) THEN 0
  ELSE IF matches[i] THEN i
  ELSE FindFrom(matches, i + 1)

\* A variant that returns the last position where the predicate holds.
FindLast(matches) ==
  IF \E i \in 1..Len(matches) : matches[i]
    THEN CHOOSE i \in 1..Len(matches) : matches[i] /\ \A j \in (i + 1)..Len(matches) : ~matches[j]
    ELSE 0

Find(matches) == FindFrom(matches, 1)

\* A variant that sorts the concatenated list by time (stably).
RECURSIVE SortedByTime(_)
SortedByTime(events) ==
  IF events = <<>> THEN <<>>
  ELSE LET earliest == CHOOSE t \in {events[i].createdAt : i \in 1..Len(events)} :
                         \A i \in 1..Len(events) : t <= events[i].createdAt
       IN  SelectSeq(events, LAMBDA e : e.createdAt = earliest)
             \o SortedByTime(SelectSeq(events, LAMBDA e : e.createdAt # earliest))

AllEventsByTime(pr) == SortedByTime(pr.comments \o pr.reviews \o pr.timelineItems)

\* [...pr.comments.nodes, ...pr.reviews.nodes, ...pr.timelineItems.nodes]
AllEvents(pr) == pr.comments \o pr.reviews \o pr.timelineItems

\* event.author?.login || event.actor?.login
EventLogin(event) == IF event.author # Null THEN event.author ELSE event.actor

IsReadyForReview(event) == event.typename = "ReadyForReviewEvent"

IsResolved(event) == event.typename = "ClosedEvent" \/ event.typename = "MergedEvent"

\* A variant that does not exclude the PR's creator.
IsOfficialAnyMaintainer(event, creator, maintainerList) ==
  \/ \E i \in 1..Len(maintainerList) :
       maintainerList[i] = (IF event.author # Null THEN event.author ELSE event.actor)
  \/ event.typename = "ClosedEvent"
  \/ event.typename = "MergedEvent"

\* A variant that takes a maintainer's event only.
IsOfficialMaintainerOnly(event, creator, maintainerList) ==
  /\ \E i \in 1..Len(maintainerList) :
       maintainerList[i] = (IF event.author # Null THEN event.author ELSE event.actor)
  /\ (IF event.author # Null THEN event.author ELSE event.actor) # creator

IsOfficial(event, creator, maintainerList) ==
  \/ Includes(maintainerList, EventLogin(event)) /\ EventLogin(event) # creator
  \/ event.typename = "ClosedEvent"
  \/ event.typename = "MergedEvent"

\* A variant that asks for a login.
IsNonAuthorWithLogin(event, creator) ==
  LET login == IF event.author # Null THEN event.author ELSE event.actor
  IN  login # Null /\ login # creator

IsNonAuthor(event, creator) == EventLogin(event) # creator

\* A variant that measures the response times from the effective creation time.
ResponseBaseEffective(prCreatedAt, effectiveCreatedAt) == effectiveCreatedAt

\* The base the two response times are measured from.
ResponseBase(prCreatedAt, effectiveCreatedAt) == prCreatedAt

\* The base the resolution time is measured from.
ResolutionBase(prCreatedAt, effectiveCreatedAt) == effectiveCreatedAt

\* The callback of pullRequests.map: the record of one PR.
ResponseTimeRecord(pr, maintainerList) ==
  LET prCreatedAt == DateParse(pr.createdAt)
      creator == pr.author
      allEvents == AllEvents(pr)
      readyForReviewEvent == Find([k \in 1..Len(allEvents) |-> IsReadyForReview(allEvents[k])])
      effectiveCreatedAt ==
        IF readyForReviewEvent # 0
          THEN DateParse(allEvents[readyForReviewEvent].createdAt)
          ELSE prCreatedAt
      officialEvent == Find([k \in 1..Len(allEvents) |-> IsOfficial(allEvents[k], creator, maintainerList)])
      nonAuthorEvent == Find([k \in 1..Len(allEvents) |-> IsNonAuthor(allEvents[k], creator)])
      resolvedEvent == Find([k \in 1..Len(allEvents) |-> IsResolved(allEvents[k])])
      resolutionTime ==
        IF resolvedEvent # 0
          THEN Number(convertToRoundedHours(DateParse(allEvents[resolvedEvent].createdAt)
                                              - ResolutionBase(prCreatedAt, effectiveCreatedAt)))
          ELSE NullNumber
  IN  [number |-> pr.number,
       createdAt |-> pr.createdAt,
       resolvedAt |-> IF resolvedEvent # 0 THEN Number(allEvents[resolvedEvent].createdAt)
                                            ELSE NullNumber,
       resolutionTime |-> resolutionTime,
       maintainer |-> Includes(maintainerList, creator),
       creator |-> creator,
       officialResponseHours |->
         IF officialEvent # 0
           THEN Number(convertToRoundedHours(DateParse(allEvents[officialEvent].createdAt)
                                               - ResponseBase(prCreatedAt, effectiveCreatedAt)))
           ELSE NullNumber,
       nonAuthorResponseHours |->
         IF nonAuthorEvent # 0
           THEN Number(convertToRoundedHours(DateParse(allEvents[nonAuthorEvent].createdAt)
                                               - ResponseBase(prCreatedAt, effectiveCreatedAt)))
           ELSE NullNumber]

\* A variant that skips the PRs that have no event.
MapPullRequestsWithEvents(prs, maintainerList) ==
  LET active == SelectSeq(prs, LAMBDA pr :
                            Len(pr.comments) + Len(pr.reviews) + Len(pr.timelineItems) > 0)
  IN  [i \in 1..Len(active) |-> ResponseTimeRecord(active[i], maintainerList)]

\* pullRequests.map(callback): one record per PR, in order.
MapPullRequests(prs, maintainerList) ==
  [i \in 1..Len(prs) |-> ResponseTimeRecord(prs[i], maintainerList)]

\* --- the inputs the model draws ---
\* The PRs' creation time, 1 March 2023 00:00, and the events' times: 30 minutes
\* and 2 hours later.
T0 == Midnight(3, 1)
EventTimes == {T0 + 30, T0 + 2 * MinutesPerHour}

Creator == "alice"
EventLogins == {"alice", "bob", "carol", Null}
MaintainerLists == {<<"bob">>, <<"alice", "bob">>}

EventPool ==
  {CommentNode(l, t) : l \in EventLogins, t \in EventTimes}
    \cup {ReviewNode(l, t) : l \in EventLogins, t \in EventTimes}
    \cup {TimelineNode(k, l, t) :
            k \in {"ReadyForReviewEvent", "ClosedEvent", "MergedEvent"},
            l \in EventLogins, t \in EventTimes}

IsComment(e) == e.typename = Null /\ e.state = Null
IsReview(e) == e.typename = Null /\ e.state # Null
IsTimeline(e) == e.typename # Null

\* 1 for a comment, 2 for a review, 3 for a timeline node.
Group(e) == IF IsComment(e) THEN 1 ELSE IF IsReview(e) THEN 2 ELSE 3

\* The event lists of a PR: up to MaxEvents events in all.
EventLists ==
  {l \in SeqsUpTo(EventPool, MaxEvents) :
     \A i \in 1..Len(l) - 1 : Group(l[i]) <= Group(l[i + 1])}

PullRequestOf(n, l) ==
  PullRequest(n, Creator, T0, SelectSeq(l, IsComment), SelectSeq(l, IsReview),
              SelectSeq(l, IsTimeline))

\* Two fixed PRs: one that became ready for review after 2 hours, got a
\* maintainer's comment after 5 hours and was merged after 30 hours; and one with
\* a maintainer's comment after 9 hours and a maintainer's review after 1 hour.
ExamplePRs ==
  << PullRequest(1, Creator, T0,
                 <<CommentNode("bob", T0 + 5 * MinutesPerHour)>>,
                 <<>>,
                 <<TimelineNode("ReadyForReviewEvent", Creator, T0 + 2 * MinutesPerHour),
                   TimelineNode("MergedEvent", "bob", T0 + 30 * MinutesPerHour)>>),
     PullRequest(2, Creator, T0,
                 <<CommentNode("bob", T0 + 9 * MinutesPerHour)>>,
                 <<ReviewNode("bob", T0 + 1 * MinutesPerHour)>>,
                 <<>>) >>

\* The PR lists: none; or the first n fixed PRs followed by one drawn PR.
PullRequestLists ==
  {<<>>} \cup
  { Append(SubSeq(ExamplePRs, 1, n), PullRequestOf(n + 1, l)) :
      n \in 0..Min(MaxPRs - 1, Len(ExamplePRs)), l \in EventLists }

calculateResponseTimes ==
  /\ anPc = "start"
  /\ responseTimes' = MapPullRequests(pullRequests, maintainers)
  /\ anPc' = "done"
  /\ UNCHANGED <<pullRequests, maintainers>>
  /\ UNCHANGED <<colVars, uaVars, pdVars, enVars>>

(***************************************************************************)
(* Enrichment.  enrichPullRequestData starts one task per PR of the bundle *)
(* and each task four sub-fetches (comments and review details, paginated; *)
(* changed files and timeline, one page each); enrichCommitContributions   *)
(* fetches the user's id and then starts one task per repository bucket    *)
(* (the commit history, paginated, then the repository's info).  A call of *)
(* an async function runs up to its first pending await, so a launch       *)
(* issues the first request of every sub-fetch in one step; after that one *)
(* step of the model is the arrival of one response and everything the     *)
(* program does upon it.  After a rejection main().catch exits the process.*)
(***************************************************************************)
\* The bundle has up to MaxEnrichItems PRs and as many repository buckets.
MaxEnrichItems == 2

PRSubFetches == {"comments", "reviews", "files", "timeline"}

Request(item, sub, cursor) == [item |-> item, sub |-> sub, cursor |-> cursor]

\* --- what the server holds ---
\* The instant the nodes' timestamps are placed around: 31 March 2023 00:00, the
\* window start of the enrichment runs.
E0 == Midnight(3, 31)

ReactionGroup(content, n) == [content |-> content, totalCount |-> n]

CommentDetail(text, at, groups) ==
  [bodyText |-> text, createdAt |-> at, reactionGroups |-> Defined(groups), reactions |-> Undefined]

ReviewDetail(text, at) == [bodyText |-> text, createdAt |-> at]

\* The pages of comments of PR k: PR 1 has two pages, the other PRs one.  Of the
\* comments some are older than the window and one is at its very start; their
\* reaction groups have counts above 0, counts of 0, both, or there is no group.
CommentPages(k) ==
  IF k = 1
    THEN << << CommentDetail("c1", E0 - 1, <<ReactionGroup("LAUGH", 1)>>),
               CommentDetail("c2", E0 + 5, <<ReactionGroup("THUMBS_UP", 2), ReactionGroup("HEART", 0)>>) >>,
            << CommentDetail("c3", E0, <<>>) >> >>
    ELSE << << CommentDetail("c4", E0 + k, <<ReactionGroup("LAUGH", 1), ReactionGroup("HOORAY", 3)>>),
               CommentDetail("c5", E0 - MinutesPerDay, <<ReactionGroup("LAUGH", 1)>>),
               CommentDetail("c6", E0 + MinutesPerDay,
                             <<ReactionGroup("THUMBS_UP", 0), ReactionGroup("HEART", 0)>>) >> >>

\* The pages of reviews of PR k: PR 2 has two pages, the other PRs one.
ReviewPages(k) ==
  IF k = 2
    THEN << <<ReviewDetail("r1", E0 - MinutesPerDay)>>, <<ReviewDetail("r2", E0)>> >>
    ELSE << <<ReviewDetail("r3", E0 + 1), ReviewDetail("r4", E0 - 1)>> >>

\* The changed files and the timeline of PR k; the timeline's event is older
\* than every window.
FilePages(k) == << <<[path |-> "a.js", additions |-> k], [path |-> "b.js", additions |-> 0]>> >>

TimelinePages(k) ==
  << <<[typename |-> "MergedEvent", createdAt |-> Midnight(1, 1) + k]>> >>

\* The pages of the commit history of bucket k (bucket 1 has two), and the one
\* "page" that holds the repository's info.
HistoryPages(k) ==
  IF k = 1
    THEN << <<[messageHeadline |-> "fix", committedDate |-> E0 + 1]>>,
            <<[messageHeadline |-> "feat", committedDate |-> E0 + 2]>> >>
    ELSE << <<[messageHeadline |-> "docs", committedDate |-> E0 + k]>> >>

RepoInfoPages(k) == << <<[description |-> "a repository", topics |-> k]>> >>

UserIdPages == << <<"U_kgDOA">> >>

\* The regular pages of a sub-fetch.
PagesOf(item, sub) ==
  IF sub = "comments" THEN CommentPages(item)
  ELSE IF sub = "reviews" THEN ReviewPages(item)
  ELSE IF sub = "files" THEN FilePages(item)
  ELSE IF sub = "timeline" THEN TimelinePages(item)
  ELSE IF sub = "history" THEN HistoryPages(item)
  ELSE IF sub = "repoInfo" THEN RepoInfoPages(item)
  ELSE UserIdPages

\* The one irregular response: the response to the request for the given page of
\* the given sub-fetch is replaced by a body that lacks the nested object, a body
\* with an errors list, or a status other than 200.
NoFault == [item |-> 0, sub |-> "none", page |-> 0, response |-> MissingPage]

FaultsIn(items, subs) ==
  { [item |-> i, sub |-> s, page |-> p, response |-> r] :
      i \in items, s \in subs, p \in 1..2, r \in {MissingPage, ErrorsPage, FailPage} }

\* The faults a run with n items can meet: none, or one in a sub-fetch of the
\* last item's task (the tasks of the items before it run undisturbed), or in
\* the fetch of the user's id.
Faults(kind, n) ==
  {NoFault} \cup
  { f \in (IF kind = "pullRequests"
             THEN FaultsIn({n} \ {0}, PRSubFetches)
             ELSE FaultsIn({n} \ {0}, {"history", "repoInfo"}) \cup FaultsIn({0}, {"userId"})) :
      f.page <= Len(PagesOf(f.item, f.sub)) }

\* The responses the server gives to the requests of a sub-fetch, page by page.
ServerOf(item, sub) ==
  LET pages == PagesOf(item, sub)
  IN  [j \in 1..Len(pages) |->
         IF enFault.item = item /\ enFault.sub = sub /\ enFault.page = j
           THEN enFault.response
           ELSE OkPage(pages[j], j < Len(pages))]

\* --- the bundle ---
EnrichPR(k) ==
  [number |-> k, title |-> "a change", repository |-> "org/repo", createdAt |-> E0 - MinutesPerDay,
   updatedAt |-> E0 + k, state |-> "OPEN", comments |-> [totalCount |-> 3],
   reviews |-> [totalCount |-> 2],
   commentDetails |-> Undefined, reviewDetails |-> Undefined,
   changedFiles |-> Undefined, timelineItems |-> Undefined]

EnrichBucket(k) ==
  [repository |-> "org/repo",
   contributions |-> [totalCount |-> k, nodes |-> Undefined, directCommits |-> Undefined],
   repoInfo |-> Undefined]

EnrichBundle(n) ==
  [pullRequests |-> [k \in 1..n |-> EnrichPR(k)],
   reviews |-> <<[state |-> "APPROVED", updatedAt |-> E0]>>,
   issues |-> <<[number |-> 7, updatedAt |-> E0 + 1]>>,
   commitsByRepo |-> [k \in 1..n |-> EnrichBucket(k)]]

\* --- the merge of the sub-results ---
\* A variant that keeps what was created after the window start only.
DetailsAfter(items, s) == SelectSeq(items, LAMBDA i : DateParse(i.createdAt) > s)

\* items.filter((i) => new Date(i.createdAt) >= since)
DetailsSince(items, s) == SelectSeq(items, LAMBDA i : DateParse(i.createdAt) >= s)

\* {}
EmptyObject == [c \in {} |-> 0]

\* A variant that takes every group, whatever its count.
RECURSIVE ReduceAllReactions(_, _)
ReduceAllReactions(groups, acc) ==
  IF groups = <<>> THEN acc
  ELSE LET group == Head(groups)
       IN  ReduceAllReactions(Tail(groups),
             [c \in DOMAIN acc \cup {group.content} |->
                IF c = group.content THEN group.totalCount ELSE acc[c]])

\* comment.reactionGroups.reduce(callback, {})
RECURSIVE ReduceReactions(_, _)
ReduceReactions(groups, acc) ==
  IF groups = <<>> THEN acc
  ELSE LET group == Head(groups)
       IN  ReduceReactions(Tail(groups),
             IF group.totalCount > 0
               THEN [c \in DOMAIN acc \cup {group.content} |->
                       IF c = group.content THEN group.totalCount ELSE acc[c]]
               ELSE acc)

\* The callback of pr.commentDetails.forEach.
CollapseReactions(comment) ==
  LET reactions == ReduceReactions(comment.reactionGroups[1], EmptyObject)
  IN  [comment EXCEPT !.reactionGroups = Undefined,
                      !.reactions = IF Cardinality(DOMAIN reactions) > 0
                                      THEN Defined(reactions) ELSE @]

\* A variant that also overwrites the primary comments field.
MergePRDetailsOverwriting(pr, s, comments, reviewDetails, changedFiles, timelineItems) ==
  LET kept == DetailsSince(comments, s)
  IN  [pr EXCEPT !.commentDetails = Defined([k \in 1..Len(kept) |-> CollapseReactions(kept[k])]),
                 !.reviewDetails = Defined(DetailsSince(reviewDetails, s)),
                 !.changedFiles = Defined(changedFiles),
                 !.timelineItems = Defined(timelineItems),
                 !.comments = [totalCount |-> Len(kept)]]

\* A variant in which the tasks share one list of changed files: a task merges
\* what the first PR's task holds at that moment.
MergePRDetailsShared(pr, s, comments, reviewDetails, changedFiles, timelineItems) ==
  LET kept == DetailsSince(comments, s)
  IN  [pr EXCEPT !.commentDetails = Defined([k \in 1..Len(kept) |-> CollapseReactions(kept[k])]),
                 !.reviewDetails = Defined(DetailsSince(reviewDetails, s)),
                 !.changedFiles = Defined(enTasks[1].files.all),
                 !.timelineItems = Defined(timelineItems)]

\* The body of a PR's task after its four sub-fetches.
MergePRDetails(pr, s, comments, reviewDetails, changedFiles, timelineItems) ==
  LET kept == DetailsSince(comments, s)
  IN  [pr EXCEPT !.commentDetails = Defined([k \in 1..Len(kept) |-> CollapseReactions(kept[k])]),
                 !.reviewDetails = Defined(DetailsSince(reviewDetails, s)),
                 !.changedFiles = Defined(changedFiles),
                 !.timelineItems = Defined(timelineItems)]

\* repoContribution.contributions.nodes = extraCommits, and .directCommits
SetCommits(bucket, extraCommits) ==
  [bucket EXCEPT !.contributions.nodes = Defined(extraCommits),
                 !.contributions.directCommits = Defined(Len(extraCommits))]

\* repoContribution.repoInfo = await fetchRepoInfo(owner, repo)
SetRepoInfo(bucket, info) == [bucket EXCEPT !.repoInfo = Defined(info)]

\* --- the tasks ---
Pending == [pc |-> "pending", cursor |-> 0, all |-> <<>>]
NotStarted == [pc |-> "idle", cursor |-> 0, all |-> <<>>]

\* A variant that starts the first PR's sub-fetches only.
FirstRequestsOfHead(n) == {Request(k, s, 0) : k \in 1..Min(n, 1), s \in PRSubFetches}

\* The requests the tasks of n PRs issue before their first pending await.
FirstRequests(n) == {Request(k, s, 0) : k \in 1..n, s \in PRSubFetches}

\* The TypeError of reading a property of null.
TypeError(property) == [message |-> <<"Cannot read properties of null, reading ", property>>]

\* A variant whose next request carries the cursor after the page's endCursor.
AfterResponseSkipping(t, r, paginated) ==
  IF fetchQueryThrows(r) THEN [t EXCEPT !.pc = "failed"]
  ELSE IF ~r.present THEN [t EXCEPT !.pc = "done"]
  ELSE IF paginated /\ r.hasNextPage
    THEN [pc |-> "pending", cursor |-> ServerEndCursor(t.cursor) + 1,
          all |-> Concat(t.all, r.nodes)]
  ELSE [pc |-> "done", cursor |-> t.cursor, all |-> Concat(t.all, r.nodes)]

\* What a sub-fetch does with a response r: it fails, or goes on to its next
\* page, or is done; a body without the nested object ends it with what it has.
AfterResponse(t, r, paginated) ==
  IF fetchQueryThrows(r) THEN [t EXCEPT !.pc = "failed"]
  ELSE IF ~r.present THEN [t EXCEPT !.pc = "done"]
  ELSE IF paginated /\ r.hasNextPage
    THEN [pc |-> "pending", cursor |-> ServerEndCursor(t.cursor), all |-> Concat(t.all, r.nodes)]
  ELSE [pc |-> "done", cursor |-> t.cursor, all |-> Concat(t.all, r.nodes)]

\* The call: the loop that starts the tasks, up to the joint await.
enrichPullRequestData ==
  LET n == Len(enActivity.pullRequests) IN
  /\ enKind = "pullRequests"
  /\ enPc = "start"
  /\ enTasks' = [k \in 1..n |-> [comments |-> Pending, reviews |-> Pending,
                                 files |-> Pending, timeline |-> Pending]]
  /\ enIssued' = FirstRequests(n)
  /\ enPc' = IF n = 0 THEN "resolved" ELSE "awaiting"
  /\ enResult' = IF n = 0 THEN Defined(enActivity) ELSE Undefined
  /\ UNCHANGED <<enKind, enInput, enFault, enActivity, enConsumed, enError>>
  /\ UNCHANGED <<colVars, uaVars, pdVars, anVars>>

\* The arrival of the response to the outstanding request of sub-fetch sub of
\* PR k's task, and what follows from it: the sub-fetch's next request or its
\* end, the task's merge when its four sub-fetches are done, the resolution of
\* the joint await when every task has merged, its rejection on a failure.
PRResponse(k, sub, paginated) ==
  LET t == enTasks[k][sub]
      r == ServerOf(k, sub)[t.cursor + 1]
      t2 == AfterResponse(t, r, paginated)
      tasks2 == [enTasks EXCEPT ![k][sub] = t2]
      merges == \A s \in PRSubFetches : tasks2[k][s].pc = "done"
      activity2 ==
        IF merges
          THEN [enActivity EXCEPT !.pullRequests[k] =
                  MergePRDetails(@, since, tasks2[k].comments.all, tasks2[k].reviews.all,
                                 tasks2[k].files.all, tasks2[k].timeline.all)]
          ELSE enActivity
      allMerged == \A i \in 1..Len(tasks2) : \A s \in PRSubFetches : tasks2[i][s].pc = "done"
  IN  /\ enKind = "pullRequests"
      /\ enPc = "awaiting"
      /\ t.pc = "pending"
      /\ enConsumed' = enConsumed \cup {Request(k, sub, t.cursor)}
      /\ enTasks' = tasks2
      /\ enIssued' = IF t2.pc = "pending" THEN enIssued \cup {Request(k, sub, t2.cursor)}
                                          ELSE enIssued
      /\ IF t2.pc = "failed"
           THEN /\ enPc' = "rejected"
                /\ enError' = Defined(fetchQueryError(r))
                /\ UNCHANGED <<enActivity, enResult>>
           ELSE /\ enActivity' = activity2
                /\ enPc' = IF allMerged THEN "resolved" ELSE "awaiting"
                /\ enResult' = IF allMerged THEN Defined(activity2) ELSE enResult
                /\ UNCHANGED enError
      /\ UNCHANGED <<enKind, enInput, enFault>>
      /\ UNCHANGED <<colVars, uaVars, pdVars, anVars>>

awaitPRComments == \E k \in 1..Len(enTasks) : PRResponse(k, "comments", TRUE)

awaitPRReviewDetails == \E k \in 1..Len(enTasks) : PRResponse(k, "reviews", TRUE)

fetchPRChangedFiles == \E k \in 1..Len(enTasks) : PRResponse(k, "files", FALSE)

fetchPRTimeline == \E k \in 1..Len(enTasks) : PRResponse(k, "timeline", FALSE)

\* The call: the request for the user's id, up to its await.
enrichCommitContributions ==
  /\ enKind = "commits"
  /\ enPc = "start"
  /\ enIssued' = {Request(0, "userId", 0)}
  /\ enPc' = "userId"
  /\ UNCHANGED <<enKind, enInput, enFault, enActivity, enTasks, enConsumed, enResult, enError>>
  /\ UNCHANGED <<colVars, uaVars, pdVars, anVars>>

\* The requests the tasks of m buckets issue before their first pending await.
FirstHistoryRequests(m) == {Request(k, "history", 0) : k \in 1..m}

\* The arrival of the user's id, and the loop that starts the tasks.
fetchUniqueIdForUser ==
  LET r == ServerOf(0, "userId")[1]
      m == Len(enActivity.commitsByRepo)
  IN  /\ enKind = "commits"
      /\ enPc = "userId"
      /\ enConsumed' = enConsumed \cup {Request(0, "userId", 0)}
      /\ IF fetchQueryThrows(r) \/ ~r.present
           THEN /\ enPc' = "rejected"
                /\ enError' = Defined(IF fetchQueryThrows(r) THEN fetchQueryError(r)
                                                             ELSE TypeError("id"))
                /\ UNCHANGED <<enTasks, enIssued, enResult>>
           ELSE /\ enTasks' = [k \in 1..m |-> [history |-> Pending, repoInfo |-> NotStarted]]
                /\ enIssued' = enIssued \cup FirstHistoryRequests(m)
                /\ enPc' = IF m = 0 THEN "resolved" ELSE "awaiting"
                /\ enResult' = IF m = 0 THEN Defined(enActivity) ELSE Undefined
                /\ UNCHANGED enError
      /\ UNCHANGED <<enKind, enInput, enFault, enActivity>>
      /\ UNCHANGED <<colVars, uaVars, pdVars, anVars>>

\* The arrival of a page of the commit history of bucket k; when the history is
\* complete the task sets nodes and directCommits and asks for the repository's
\* info.
awaitCommitContributionsForRepo ==
  \E k \in 1..Len(enTasks) :
    LET t == enTasks[k].history
        r == ServerOf(k, "history")[t.cursor + 1]
        t2 == AfterResponse(t, r, TRUE)
    IN  /\ enKind = "commits"
        /\ enPc = "awaiting"
        /\ t.pc = "pending"
        /\ enConsumed' = enConsumed \cup {Request(k, "history", t.cursor)}
        /\ enTasks' = [enTasks EXCEPT ![k].history = t2,
                                      ![k].repoInfo = IF t2.pc = "done" THEN Pending ELSE @]
        /\ enIssued' = IF t2.pc = "pending" THEN enIssued \cup {Request(k, "history", t2.cursor)}
                       ELSE IF t2.pc = "done" THEN enIssued \cup {Request(k, "repoInfo", 0)}
                       ELSE enIssued
        /\ enActivity' = IF t2.pc = "done"
                           THEN [enActivity EXCEPT !.commitsByRepo[k] = SetCommits(@, t2.all)]
                           ELSE enActivity
        /\ IF t2.pc = "failed"
             THEN enPc' = "rejected" /\ enError' = Defined(fetchQueryError(r))
             ELSE UNCHANGED <<enPc, enError>>
        /\ UNCHANGED <<enKind, enInput, enFault, enResult>>
        /\ UNCHANGED <<colVars, uaVars, pdVars, anVars>>

\* The arrival of the repository's info of bucket k: the end of its task, and
\* the resolution of the joint await when every task has ended.
fetchRepoInfo ==
  \E k \in 1..Len(enTasks) :
    LET t == enTasks[k].repoInfo
        r == ServerOf(k, "repoInfo")[1]
        t2 == AfterResponse(t, r, FALSE)
        tasks2 == [enTasks EXCEPT ![k].repoInfo = t2]
        \* data.data?.repository
        info == IF r.present THEN Defined(r.nodes[1]) ELSE Undefined
        activity2 == [enActivity EXCEPT !.commitsByRepo[k] = SetRepoInfo(@, info)]
        allDone == \A i \in 1..Len(tasks2) : tasks2[i].repoInfo.pc = "done"
    IN  /\ enKind = "commits"
        /\ enPc = "awaiting"
        /\ t.pc = "pending"
        /\ enConsumed' = enConsumed \cup {Request(k, "repoInfo", 0)}
        /\ enTasks' = tasks2
        /\ IF t2.pc = "failed"
             THEN /\ enPc' = "rejected"
                  /\ enError' = Defined(fetchQueryError(r))
                  /\ UNCHANGED <<enActivity, enResult>>
             ELSE /\ enActivity' = activity2
                  /\ enPc' = IF allDone THEN "resolved" ELSE "awaiting"
                  /\ enResult' = IF allDone THEN Defined(activity2) ELSE enResult
                  /\ UNCHANGED enError
        /\ UNCHANGED <<enKind, enInput, enFault, enIssued>>
        /\ UNCHANGED <<colVars, uaVars, pdVars, anVars>>

(***************************************************************************)
(* The specifications, one per component; the variables of the other       *)
(* components are idle.                                                    *)
(***************************************************************************)
InitCollector ==
  /\ colKind \in CollectorKinds
  /\ colServer \in ServerSequences
  /\ colAll = <<>>
  /\ colCursor = 0
  /\ colHasNextPage = TRUE
  /\ colPc = "loop"
  /\ colRequests = <<>>
  /\ colResult = <<>>
  /\ colError = Undefined
  /\ since = 0 /\ uaServer = <<>> /\ activity = EmptyActivity /\ uaCursor = 0
  /\ uaHasNextPage = FALSE /\ uaPc = "idle" /\ uaRequests = <<>> /\ uaFetched = NothingFetched
  /\ uaResponses = <<>> /\ uaError = Undefined /\ mainPc = "idle" /\ mainOutputs = <<>>
  /\ uaNow = 0
  /\ now = 0 /\ pdServer = <<>> /\ pdPullRequests = <<>> /\ pdCursor = 0
  /\ pdHasNextPage = FALSE /\ pdPc = "idle" /\ pdRequests = <<>> /\ pdReceived = <<>>
  /\ pdResult = <<>> /\ pdResponses = <<>>
  /\ pullRequests = <<>> /\ maintainers = <<>> /\ anPc = "idle" /\ responseTimes = <<>>
  /\ enKind = "idle" /\ enInput = EmptyActivity /\ enFault = NoFault /\ enActivity = EmptyActivity
  /\ enTasks = <<>> /\ enIssued = {} /\ enConsumed = {} /\ enPc = "idle"
  /\ enResult = Undefined /\ enError = Undefined

NextCollector ==
  \/ fetchPRComments
  \/ fetchPRReviewDetails
  \/ fetchCommitContributionsForRepo
  \/ CollectorReturn

SpecCollector == InitCollector /\ [][NextCollector]_vars

InitActivity ==
  /\ since \in SinceDates
  /\ uaNow \in NowDates
  /\ \E l \in ContributionLists(ToISOString(since), MaxContributions) :
       LET prs == OfType(l, "pullRequest") IN
       \E b \in BucketSequences(NumPages(Len(prs))) :
         uaServer = [prs |-> prs,
                     reviews |-> OfType(l, "pullRequestReview"),
                     issues |-> OfType(l, "issue"),
                     buckets |-> b]
  /\ activity = EmptyActivity
  /\ uaCursor = 0
  /\ uaHasNextPage = TRUE
  /\ uaPc = "loop"
  /\ uaRequests = <<>>
  /\ uaFetched = NothingFetched
  /\ uaResponses = <<>>
  /\ uaError = Undefined
  /\ mainPc = "fetch"
  /\ mainOutputs = <<>>
  /\ colKind = "idle" /\ colServer = <<>> /\ colAll = <<>> /\ colCursor = 0
  /\ colHasNextPage = FALSE /\ colPc = "idle" /\ colRequests = <<>> /\ colResult = <<>>
  /\ colError = Undefined
  /\ now = 0 /\ pdServer = <<>> /\ pdPullRequests = <<>> /\ pdCursor = 0
  /\ pdHasNextPage = FALSE /\ pdPc = "idle" /\ pdRequests = <<>> /\ pdReceived = <<>>
  /\ pdResult = <<>> /\ pdResponses = <<>>
  /\ pullRequests = <<>> /\ maintainers = <<>> /\ anPc = "idle" /\ responseTimes = <<>>
  /\ enKind = "idle" /\ enInput = EmptyActivity /\ enFault = NoFault /\ enActivity = EmptyActivity
  /\ enTasks = <<>> /\ enIssued = {} /\ enConsumed = {} /\ enPc = "idle"
  /\ enResult = Undefined /\ enError = Undefined

NextActivity ==
  \/ fetchUserActivityPage
  \/ fetchUserActivityReturn
  \/ mainOutput
  \/ mainCatch

SpecActivity == InitActivity /\ [][NextActivity]_vars

InitPRData ==
  /\ now \in RunDates
  /\ pdServer \in Listings(now, MaxListed)
  /\ pdPullRequests = <<>>
  /\ pdCursor = 0
  /\ pdHasNextPage = TRUE
  /\ pdPc = "loop"
  /\ pdRequests = <<>>
  /\ pdReceived = <<>>
  /\ pdResult = <<>>
  /\ pdResponses = <<>>
  /\ colKind = "idle" /\ colServer = <<>> /\ colAll = <<>> /\ colCursor = 0
  /\ colHasNextPage = FALSE /\ colPc = "idle" /\ colRequests = <<>> /\ colResult = <<>>
  /\ colError = Undefined
  /\ since = 0 /\ uaServer = <<>> /\ activity = EmptyActivity /\ uaCursor = 0
  /\ uaHasNextPage = FALSE /\ uaPc = "idle" /\ uaRequests = <<>> /\ uaFetched = NothingFetched
  /\ uaResponses = <<>> /\ uaError = Undefined /\ mainPc = "idle" /\ mainOutputs = <<>>
  /\ uaNow = 0
  /\ pullRequests = <<>> /\ maintainers = <<>> /\ anPc = "idle" /\ responseTimes = <<>>
  /\ enKind = "idle" /\ enInput = EmptyActivity /\ enFault = NoFault /\ enActivity = EmptyActivity
  /\ enTasks = <<>> /\ enIssued = {} /\ enConsumed = {} /\ enPc = "idle"
  /\ enResult = Undefined /\ enError = Undefined

NextPRData ==
  \/ fetchPRDataPage
  \/ fetchPRDataReturn

SpecPRData == InitPRData /\ [][NextPRData]_vars

InitAnalyze ==
  /\ pullRequests \in PullRequestLists
  /\ maintainers \in MaintainerLists
  /\ anPc = "start"
  /\ responseTimes = <<>>
  /\ colKind = "idle" /\ colServer = <<>> /\ colAll = <<>> /\ colCursor = 0
  /\ colHasNextPage = FALSE /\ colPc = "idle" /\ colRequests = <<>> /\ colResult = <<>>
  /\ colError = Undefined
  /\ since = 0 /\ uaServer = <<>> /\ activity = EmptyActivity /\ uaCursor = 0
  /\ uaHasNextPage = FALSE /\ uaPc = "idle" /\ uaRequests = <<>> /\ uaFetched = NothingFetched
  /\ uaResponses = <<>> /\ uaError = Undefined /\ mainPc = "idle" /\ mainOutputs = <<>>
  /\ uaNow = 0
  /\ now = 0 /\ pdServer = <<>> /\ pdPullRequests = <<>> /\ pdCursor = 0
  /\ pdHasNextPage = FALSE /\ pdPc = "idle" /\ pdRequests = <<>> /\ pdReceived = <<>>
  /\ pdResult = <<>> /\ pdResponses = <<>>
  /\ enKind = "idle" /\ enInput = EmptyActivity /\ enFault = NoFault /\ enActivity = EmptyActivity
  /\ enTasks = <<>> /\ enIssued = {} /\ enConsumed = {} /\ enPc = "idle"
  /\ enResult = Undefined /\ enError = Undefined

NextAnalyze ==
  \/ calculateResponseTimes

SpecAnalyze == InitAnalyze /\ [][NextAnalyze]_vars

InitEnrich ==
  /\ enKind \in {"pullRequests", "commits"}
  /\ since = DateParse(E0)
  /\ \E n \in 0..MaxEnrichItems :
       /\ enInput = EnrichBundle(n)
       /\ enActivity = EnrichBundle(n)
       /\ enFault \in Faults(enKind, n)
  /\ enTasks = <<>>
  /\ enIssued = {}
  /\ enConsumed = {}
  /\ enPc = "start"
  /\ enResult = Undefined
  /\ enError = Undefined
  /\ colKind = "idle" /\ colServer = <<>> /\ colAll = <<>> /\ colCursor = 0
  /\ colHasNextPage = FALSE /\ colPc = "idle" /\ colRequests = <<>> /\ colResult = <<>>
  /\ colError = Undefined
  /\ uaServer = <<>> /\ activity = EmptyActivity /\ uaCursor = 0
  /\ uaHasNextPage = FALSE /\ uaPc = "idle" /\ uaRequests = <<>> /\ uaFetched = NothingFetched
  /\ uaResponses = <<>> /\ uaError = Undefined /\ mainPc = "idle" /\ mainOutputs = <<>>
  /\ uaNow = 0
  /\ now = 0 /\ pdServer = <<>> /\ pdPullRequests = <<>> /\ pdCursor = 0
  /\ pdHasNextPage = FALSE /\ pdPc = "idle" /\ pdRequests = <<>> /\ pdReceived = <<>>
  /\ pdResult = <<>> /\ pdResponses = <<>>
  /\ pullRequests = <<>> /\ maintainers = <<>> /\ anPc = "idle" /\ responseTimes = <<>>

NextEnrich ==
  \/ enrichPullRequestData
  \/ awaitPRComments
  \/ awaitPRReviewDetails
  \/ fetchPRChangedFiles
  \/ fetchPRTimeline
  \/ enrichCommitContributions
  \/ fetchUniqueIdForUser
  \/ awaitCommitContributionsForRepo
  \/ fetchRepoInfo

SpecEnrich == InitEnrich /\ [][NextEnrich]_vars

(***************************************************************************)
(* Properties of the paginated collectors.                                 *)
(***************************************************************************)
\* The first page of the server's sequence that does not announce a next page.
FirstLastPage ==
  CHOOSE k \in 1..Len(colServer) :
    /\ ~colServer[k].hasNextPage
    /\ \A j \in 1..(k - 1) : colServer[j].hasNextPage

\* C1: when the pages up to the first one that reports hasNextPage = false (the
\* k-th) are all well-formed pages, each collector issues no more than k requests,
\* does not fail, and returns after exactly k requests with the concatenation of
\* the nodes of pages 1..k, in page order, nothing dropped, reordered or
\* deduplicated.
C1_CollectsPagesInOrder ==
  (colPc # "idle" /\ IsOkPage(colServer[FirstLastPage])) =>
    LET k == FirstLastPage IN
    /\ colPc # "thrown"
    /\ Len(colRequests) <= k
    /\ (colPc = "loop" /\ colHasNextPage) => Len(colRequests) < k
    /\ (colPc = "loop" /\ ~colHasNextPage) => Len(colRequests) = k
    /\ colPc = "returned" =>
         /\ Len(colRequests) = k
         /\ colResult = Flatten([j \in 1..k |-> colServer[j].nodes])

\* A collector has returned two pages that hold the same node, and the server
\* had a further page it was not asked for.
C1_Witness ==
  /\ colPc = "returned"
  /\ IsOkPage(colServer[FirstLastPage])
  /\ FirstLastPage = 2
  /\ Len(colServer) > 2
  /\ Len(colResult) = 2
  /\ colResult[1] = colResult[2]

\* The response to the j-th request is one fetchQuery fails on.
IsFailure(r) == r.status # 200 \/ Len(r.errors) > 0

\* C11: fetchQuery issues one request per call and never retries (the j-th
\* request of a collector is the one for page j, and a response fetchQuery fails
\* on is the last one requested); it fails with an error that carries the status
\* text when the HTTP status is not 200, with one that carries the first message
\* of the errors list when the body has one, and returns the body otherwise (its
\* nodes reach the accumulator); the collector rejects with that very error and
\* returns no list.
C11_FetchQueryFails ==
  colPc # "idle" =>
    /\ \A j \in 1..Len(colRequests) : colRequests[j] = j - 1
    /\ \A j \in 1..Len(colRequests) :
         IsFailure(colServer[j]) =>
           /\ j = Len(colRequests)
           /\ colPc = "thrown"
           /\ colResult = <<>>
           /\ colAll = Flatten([i \in 1..(j - 1) |-> colServer[i].nodes])
           /\ colError =
                <<[message |-> <<"Failed to fetch user activity data: ",
                                 IF colServer[j].status # 200
                                   THEN colServer[j].statusText
                                   ELSE colServer[j].errors[1]>>]>>
    /\ (\A j \in 1..Len(colRequests) : ~IsFailure(colServer[j])) =>
         /\ colPc # "thrown"
         /\ colError = <<>>
         /\ colAll = Flatten([i \in 1..Len(colRequests) |-> colServer[i].nodes])

\* A collector got one page and then a body with two errors: it rejected with the
\* message of the first, after two requests.
C11_Witness ==
  /\ colPc = "thrown"
  /\ Len(colRequests) = 2
  /\ Len(colAll) = 1
  /\ Len(colServer[2].errors) = 2
  /\ colServer[2].errors[1] # colServer[2].errors[2]
  /\ colError = <<[message |-> <<"Failed to fetch user activity data: ", colServer[2].errors[1]>>]>>

\* C15: a response that lacks the nested object the collector reads (the
\* repository, the pull request, its comments or reviews connection, the default
\* branch's target) makes the collector fail with an error; the collector never
\* returns normally after such a response.
C15_MissingObjectRaises ==
  \A j \in 1..Len(colRequests) :
    (~IsFailure(colServer[j]) /\ ~colServer[j].present) => (colPc = "thrown" /\ colError # <<>>)

(***************************************************************************)
(* Properties of fetchUserActivity.                                        *)
(***************************************************************************)
\* The wire timestamp of the window start.
WindowStart == ToISOString(since)

InWindow(items) == SelectSeq(items, LAMBDA i : i.updatedAt >= WindowStart)

IsIn(item, list) == \E k \in 1..Len(list) : list[k] = item

\* C2: every review and every issue the server holds whose updatedAt is at or
\* after the window start is in the returned bundle.
C2_ReviewsAndIssuesExhausted ==
  uaPc = "returned" =>
    /\ \A k \in 1..Len(uaServer.reviews) :
         uaServer.reviews[k].updatedAt >= WindowStart => IsIn(uaServer.reviews[k], activity.reviews)
    /\ \A k \in 1..Len(uaServer.issues) :
         uaServer.issues[k].updatedAt >= WindowStart => IsIn(uaServer.issues[k], activity.issues)

\* C3: after the return each of the three lists holds exactly the fetched items
\* whose updatedAt is at or after the window start, in fetch order, whatever
\* their createdAt.
C3_WindowFilter ==
  uaPc = "returned" =>
    /\ activity.pullRequests = InWindow(uaFetched.pullRequests)
    /\ activity.reviews = InWindow(uaFetched.reviews)
    /\ activity.issues = InWindow(uaFetched.issues)
    /\ \A list \in {activity.pullRequests, activity.reviews, activity.issues} :
         \A k \in 1..Len(list) : list[k].updatedAt >= WindowStart

\* The bundle holds a PR created before the window and updated inside it, and a
\* fetched PR updated before the window was left out.
C3_Witness ==
  /\ uaPc = "returned"
  /\ \E k \in 1..Len(activity.pullRequests) :
       /\ activity.pullRequests[k].createdAt < WindowStart
       /\ activity.pullRequests[k].updatedAt >= WindowStart
  /\ \E k \in 1..Len(uaFetched.pullRequests) :
       /\ uaFetched.pullRequests[k].updatedAt < WindowStart
       /\ ~IsIn(uaFetched.pullRequests[k], activity.pullRequests)

\* C13: when the j-th page fetch of fetchUserActivity fails, the aggregation fails
\* with that error: the failed request is the last one, no bundle is returned
\* (the items of pages 1..j-1 stay in the function's local state), and main
\* writes no output.
C13_PageFailureAborts ==
  /\ \A j \in 1..Len(uaResponses) :
       IsFailure(uaResponses[j]) =>
         /\ j = Len(uaResponses)
         /\ Len(uaRequests) = j
         /\ uaPc = "thrown"
         /\ uaError =
              <<[message |-> <<"Failed to fetch user activity data: ",
                               IF uaResponses[j].status # 200
                                 THEN uaResponses[j].statusText
                                 ELSE uaResponses[j].errors[1]>>]>>
         /\ mainPc # "done"
         /\ mainOutputs = <<>>
  /\ uaPc = "thrown" => (uaResponses # <<>> /\ IsFailure(uaResponses[Len(uaResponses)]))
  /\ mainOutputs # <<>> => uaPc = "returned"

\* The second page fetch failed after the first had brought a PR of the window:
\* the process exited without output and without a third request, though the
\* server had a third page.
C13_Witness ==
  /\ uaPc = "thrown"
  /\ mainPc = "exit"
  /\ Len(uaRequests) = 2
  /\ Len(uaServer.prs) > 2 * pageSize
  /\ Len(activity.pullRequests) > 0
  /\ activity.pullRequests[1].updatedAt >= WindowStart
  /\ mainOutputs = <<>>

\* C20: the bucket list of the returned bundle is the
\* commitContributionsByRepository list of the first page response, whatever the
\* later responses carry and also when the first list is empty, and it is not
\* filtered.
C20_BucketsFromFirstPage ==
  uaPc = "returned" => activity.commitsByRepo = uaServer.buckets[1]

\* The date one calendar month before d: the same day of the month and time of
\* day in the month before, or that month's last day when it has no such day.
CalendarMonthBack(d) ==
  LET n == d \div (24 * 60 * 60)
      m == CHOOSE x \in 1..12 : MonthStart(x) <= n /\ (x = 12 \/ n < MonthStart(x + 1))
      dayOfMonth == n - MonthStart(m)
      lastDay == MonthStart(m) - MonthStart(m - 1) - 1
  IN  (MonthStart(m - 1) + (IF dayOfMonth < lastDay THEN dayOfMonth ELSE lastDay)) * (24 * 60 * 60)
        + (d % (24 * 60 * 60))

\* C24: every page request of fetchUserActivity carries the same lookback start,
\* which is the window start minus one calendar month and is strictly earlier
\* than the window start; the window start itself is what the post-filter
\* compares updatedAt with.
C24_LookbackStart ==
  /\ \A j \in 1..Len(uaRequests) :
       /\ uaRequests[j].since = uaRequests[1].since
       /\ uaRequests[j].since < WindowStart
       /\ uaRequests[j].since * 60 = CalendarMonthBack(since)
  /\ uaPc = "returned" =>
       \A k \in 1..Len(uaFetched.pullRequests) :
         IsIn(uaFetched.pullRequests[k], activity.pullRequests)
           <=> uaFetched.pullRequests[k].updatedAt >= WindowStart

\* C21: every date window has its start at or before its end: a window start
\* later than the run's `now` is in no request of fetchUserActivity and in no
\* period main reports, the period of every report has start <= end, and the
\* health analysis has rangeStart <= rangeEnd.
C21_WindowsOrdered ==
  /\ \A j \in 1..Len(uaRequests) : since <= uaNow
  /\ \A j \in 1..Len(mainOutputs) :
       /\ since <= uaNow
       /\ mainOutputs[j].period.start <= mainOutputs[j].period.end
  /\ pdPc # "idle" => rangeStart(now) <= rangeEnd(now)

(***************************************************************************)
(* Properties of fetchPRData.                                              *)
(***************************************************************************)
RangeStartWire == ToISOString(rangeStart(now))
RangeEndWire == ToISOString(rangeEnd(now))

\* C4: a received page that is non-empty and whose last PR was created before
\* rangeStart is the last page requested; and the returned list holds no PR
\* created before rangeStart, no draft and no PR created after rangeEnd.
C4_EarlyExit ==
  /\ \A j \in 1..Len(pdReceived) :
       (Len(pdReceived[j]) > 0 /\ pdReceived[j][Len(pdReceived[j])].createdAt < RangeStartWire)
         => (j = Len(pdReceived) /\ Len(pdRequests) = j)
  /\ pdPc = "returned" =>
       \A i \in 1..Len(pdResult) :
         /\ pdResult[i].createdAt >= RangeStartWire
         /\ pdResult[i].createdAt <= RangeEndWire
         /\ ~pdResult[i].isDraft

\* The listing stopped at a page whose last PR is older than the range while the
\* server had more PRs, and returned a PR of that page.
C4_Witness ==
  /\ pdPc = "returned"
  /\ Len(pdServer) > Len(pdPullRequests)
  /\ Len(pdReceived) = 1
  /\ pdReceived[1][Len(pdReceived[1])].createdAt < RangeStartWire
  /\ Len(pdResult) = 1

\* C12: a status-200 response of the PR listing whose body carries a non-empty
\* errors list is fatal: the listing fails at that response, takes none of its
\* nodes and returns no result.
C12_ErrorsAreFatal ==
  \A j \in 1..Len(pdResponses) :
    (pdResponses[j].status = 200 /\ Len(pdResponses[j].errors) > 0) =>
      /\ j = Len(pdResponses)
      /\ Len(pdReceived) = j - 1
      /\ pdPc = "thrown"
      /\ pdResult = <<>>

\* The server's listing is sorted by createdAt, newest first.
SortedDescending(prs) ==
  \A i \in 1..(Len(prs) - 1) : prs[i].createdAt >= prs[i + 1].createdAt

\* The non-draft PRs of a listing that were created within the range, taken one
\* by one from the head of the listing.
RECURSIVE InWindowOf(_)
InWindowOf(prs) ==
  IF prs = <<>> THEN <<>>
  ELSE LET pr == Head(prs)
           keep == /\ ~pr.isDraft
                   /\ RangeStartWire <= pr.createdAt
                   /\ pr.createdAt <= RangeEndWire
       IN  (IF keep THEN <<pr>> ELSE <<>>) \o InWindowOf(Tail(prs))

\* C22: when the server's listing is sorted by createdAt descending, the list
\* fetchPRData returns is the list of the non-draft PRs of the whole listing
\* created within [rangeStart, rangeEnd], in the listing's order: what paging to
\* exhaustion and filtering would give.
C22_EarlyExitLosesNothing ==
  (pdPc = "returned" /\ SortedDescending(pdServer)) => pdResult = InWindowOf(pdServer)

\* A sorted listing of three PRs on two pages: the first page ends with a PR
\* older than the range, the second page is never requested, and the PR of the
\* first page that is in the range is returned.
C22_Witness ==
  /\ pdPc = "returned"
  /\ SortedDescending(pdServer)
  /\ Len(pdServer) = 3
  /\ Len(pdRequests) = 1
  /\ Len(pdPullRequests) = 2
  /\ pdServer[2].createdAt < RangeStartWire
  /\ pdResult = <<pdServer[1]>>

(***************************************************************************)
(* Properties of calculateResponseTimes.                                   *)
(***************************************************************************)
\* The events of a PR in the order the function scans them.
Scanned(pr) == pr.comments \o pr.reviews \o pr.timelineItems

LoginOf(e) == IF e.author # Null THEN e.author ELSE e.actor

MaintainerSet == {maintainers[j] : j \in 1..Len(maintainers)}

Lowest(S) == IF S = {} THEN 0 ELSE CHOOSE k \in S : \A m \in S : k <= m

\* The positions of the events that qualify for each definition.
OfficialPositions(pr) ==
  {k \in 1..Len(Scanned(pr)) :
     \/ LoginOf(Scanned(pr)[k]) \in MaintainerSet /\ LoginOf(Scanned(pr)[k]) # pr.author
     \/ Scanned(pr)[k].typename \in {"ClosedEvent", "MergedEvent"}}

NonAuthorPositions(pr) == {k \in 1..Len(Scanned(pr)) : LoginOf(Scanned(pr)[k]) # pr.author}

ResolvedPositions(pr) ==
  {k \in 1..Len(Scanned(pr)) : Scanned(pr)[k].typename \in {"ClosedEvent", "MergedEvent"}}

ReadyPositions(pr) ==
  {k \in 1..Len(Scanned(pr)) : Scanned(pr)[k].typename = "ReadyForReviewEvent"}

\* h is the number of hours from wire time a to wire time b, a half rounded up.
IsHoursBetween(h, a, b) ==
  /\ h # NullNumber
  /\ 2 * (b - a) >= (2 * h[1] - 1) * MinutesPerHour
  /\ 2 * (b - a) < (2 * h[1] + 1) * MinutesPerHour

\* C5: the two response times are measured from the PR's createdAt even when a
\* ReadyForReview event exists; the resolution time is measured from the first
\* ReadyForReview event when there is one and from createdAt otherwise.  The PR
\* that became ready after 2 hours, got a maintainer's comment after 5 hours and
\* was merged after 30 hours has officialResponseHours 5 and resolution time 28.
C5_ResponseFromCreatedAt ==
  anPc = "done" =>
    \A i \in 1..Len(pullRequests) :
      LET pr == pullRequests[i]
          rec == responseTimes[i]
          ready == Lowest(ReadyPositions(pr))
          from == IF ready # 0 THEN Scanned(pr)[ready].createdAt ELSE pr.createdAt
      IN  /\ OfficialPositions(pr) # {} =>
               IsHoursBetween(rec.officialResponseHours, pr.createdAt,
                              Scanned(pr)[Lowest(OfficialPositions(pr))].createdAt)
          /\ NonAuthorPositions(pr) # {} =>
               IsHoursBetween(rec.nonAuthorResponseHours, pr.createdAt,
                              Scanned(pr)[Lowest(NonAuthorPositions(pr))].createdAt)
          /\ ResolvedPositions(pr) # {} =>
               IsHoursBetween(rec.resolutionTime, from,
                              Scanned(pr)[Lowest(ResolvedPositions(pr))].createdAt)
          /\ pr = ExamplePRs[1] => (rec.officialResponseHours = Number(5) /\ rec.resolutionTime = Number(28))

\* The records hold the one of that PR, with 5 and 28 hours.
C5_Witness ==
  /\ anPc = "done"
  /\ \E i \in 1..Len(pullRequests) :
       /\ pullRequests[i] = ExamplePRs[1]
       /\ responseTimes[i].officialResponseHours = Number(5)
       /\ responseTimes[i].resolutionTime = Number(28)

\* C6: there is one record per input PR, in input order; a PR without comments,
\* reviews and timeline events has its record, with resolution time, resolvedAt
\* and both response times null.
C6_OneRecordPerPR ==
  anPc = "done" =>
    /\ Len(responseTimes) = Len(pullRequests)
    /\ \A i \in 1..Len(pullRequests) :
         /\ responseTimes[i].number = pullRequests[i].number
         /\ responseTimes[i].createdAt = pullRequests[i].createdAt
         /\ responseTimes[i].creator = pullRequests[i].author
         /\ Scanned(pullRequests[i]) = <<>> =>
              /\ responseTimes[i].resolutionTime = NullNumber
              /\ responseTimes[i].resolvedAt = NullNumber
              /\ responseTimes[i].officialResponseHours = NullNumber
              /\ responseTimes[i].nonAuthorResponseHours = NullNumber

\* Two PRs were analysed, the second of which has no event.
C6_Witness ==
  /\ anPc = "done"
  /\ Len(pullRequests) = 2
  /\ Scanned(pullRequests[2]) = <<>>
  /\ Len(responseTimes) = 2
  /\ responseTimes[2].number = 2

\* C7: the official response time is that of the lowest-position event that is
\* by a maintainer other than the creator or is a Closed or Merged event (by
\* anyone); it is null exactly when there is no such event.
C7_OfficialEvent ==
  anPc = "done" =>
    \A i \in 1..Len(pullRequests) :
      LET pr == pullRequests[i]
          rec == responseTimes[i]
      IN  /\ (rec.officialResponseHours = NullNumber) <=> (OfficialPositions(pr) = {})
          /\ OfficialPositions(pr) # {} =>
               IsHoursBetween(rec.officialResponseHours, pr.createdAt,
                              Scanned(pr)[Lowest(OfficialPositions(pr))].createdAt)

\* The creator, who is a maintainer, commented first and closed the PR later:
\* the official response is the Closed event, with another time than the comment.
C7_Witness ==
  /\ anPc = "done"
  /\ \E i \in 1..Len(pullRequests) :
       LET pr == pullRequests[i] IN
       /\ pr.author \in MaintainerSet
       /\ Len(Scanned(pr)) = 2
       /\ LoginOf(Scanned(pr)[1]) = pr.author
       /\ Scanned(pr)[2].typename = "ClosedEvent"
       /\ LoginOf(Scanned(pr)[2]) = pr.author
       /\ Scanned(pr)[1].createdAt # Scanned(pr)[2].createdAt
       /\ IsHoursBetween(responseTimes[i].officialResponseHours, pr.createdAt,
                         Scanned(pr)[2].createdAt)

\* C8: the non-author response time is that of the lowest-position event whose
\* login is not the creator's, maintainer or not (an event without a login is
\* not by the creator); it is null exactly when every event is by the creator.
C8_NonAuthorEvent ==
  anPc = "done" =>
    \A i \in 1..Len(pullRequests) :
      LET pr == pullRequests[i]
          rec == responseTimes[i]
      IN  /\ (rec.nonAuthorResponseHours = NullNumber)
               <=> (\A k \in 1..Len(Scanned(pr)) : LoginOf(Scanned(pr)[k]) = pr.author)
          /\ NonAuthorPositions(pr) # {} =>
               IsHoursBetween(rec.nonAuthorResponseHours, pr.createdAt,
                              Scanned(pr)[Lowest(NonAuthorPositions(pr))].createdAt)

\* The first event has no login and the second is by someone who is no
\* maintainer, at another time: the non-author response is the first event.
C8_Witness ==
  /\ anPc = "done"
  /\ \E i \in 1..Len(pullRequests) :
       LET pr == pullRequests[i] IN
       /\ Len(Scanned(pr)) = 2
       /\ LoginOf(Scanned(pr)[1]) = Null
       /\ LoginOf(Scanned(pr)[2]) \notin MaintainerSet \cup {pr.author, Null}
       /\ Scanned(pr)[1].createdAt # Scanned(pr)[2].createdAt
       /\ IsHoursBetween(responseTimes[i].nonAuthorResponseHours, pr.createdAt,
                         Scanned(pr)[1].createdAt)

\* The node chosen among the qualifying comments c, reviews r and timeline nodes
\* t (each in its group's order): a comment before any review, a review before
\* any timeline node, whatever the timestamps; <<>> when none qualifies.
FirstByGroup(c, r, t) ==
  IF c # <<>> THEN <<c[1]>>
  ELSE IF r # <<>> THEN <<r[1]>>
  ELSE IF t # <<>> THEN <<t[1]>>
  ELSE <<>>

\* C9: the events are scanned as all comments, then all reviews, then all
\* timeline nodes, each group in its upstream order and never sorted by time: of
\* the events that qualify, a comment is chosen before a review and a review
\* before a timeline node, also when its timestamp is the later one.
C9_ScanOrder ==
  anPc = "done" =>
    \A i \in 1..Len(pullRequests) :
      LET pr == pullRequests[i]
          rec == responseTimes[i]
          Official(e) == \/ LoginOf(e) \in MaintainerSet /\ LoginOf(e) # pr.author
                         \/ e.typename \in {"ClosedEvent", "MergedEvent"}
          NonAuthor(e) == LoginOf(e) # pr.author
          official == FirstByGroup(SelectSeq(pr.comments, Official),
                                   SelectSeq(pr.reviews, Official),
                                   SelectSeq(pr.timelineItems, Official))
          nonAuthor == FirstByGroup(SelectSeq(pr.comments, NonAuthor),
                                    SelectSeq(pr.reviews, NonAuthor),
                                    SelectSeq(pr.timelineItems, NonAuthor))
      IN  /\ official # <<>> =>
               IsHoursBetween(rec.officialResponseHours, pr.createdAt, official[1].createdAt)
          /\ nonAuthor # <<>> =>
               IsHoursBetween(rec.nonAuthorResponseHours, pr.createdAt, nonAuthor[1].createdAt)

\* A maintainer's comment 2 hours after the creation was chosen over the same
\* maintainer's review 30 minutes after it.
C9_Witness ==
  /\ anPc = "done"
  /\ \E i \in 1..Len(pullRequests) :
       LET pr == pullRequests[i] IN
       /\ pr.comments = <<CommentNode("bob", T0 + 2 * MinutesPerHour)>>
       /\ pr.reviews = <<ReviewNode("bob", T0 + 30)>>
       /\ pr.timelineItems = <<>>
       /\ responseTimes[i].officialResponseHours = Number(2)
       /\ responseTimes[i].nonAuthorResponseHours = Number(2)

\* The positions of the events by a maintainer other than the PR's creator.
MaintainerPositions(pr) ==
  {k \in 1..Len(Scanned(pr)) :
     LoginOf(Scanned(pr)[k]) \in MaintainerSet /\ LoginOf(Scanned(pr)[k]) # pr.author}

\* C26: in every record a non-null resolvedAt comes with a non-null
\* officialResponseHours, and the official event (the one the hours are those
\* of) is at or before the resolved event (the one resolvedAt is the time of) in
\* the scanned list.
C26_ResolvedImpliesOfficial ==
  anPc = "done" =>
    \A i \in 1..Len(pullRequests) :
      LET pr == pullRequests[i]
          rec == responseTimes[i]
      IN  rec.resolvedAt # NullNumber =>
            /\ rec.officialResponseHours # NullNumber
            /\ \E r \in ResolvedPositions(pr) :
                 /\ Scanned(pr)[r].createdAt = rec.resolvedAt[1]
                 /\ \E o \in 1..r :
                      /\ o \in OfficialPositions(pr)
                      /\ IsHoursBetween(rec.officialResponseHours, pr.createdAt,
                                        Scanned(pr)[o].createdAt)

\* A PR whose only events are by its creator, the second of them the Closed
\* event: resolvedAt is that event's time and the official response is that
\* event's too.
C26_Witness ==
  /\ anPc = "done"
  /\ \E i \in 1..Len(pullRequests) :
       LET pr == pullRequests[i] IN
       /\ Len(Scanned(pr)) = 2
       /\ \A k \in 1..2 : LoginOf(Scanned(pr)[k]) = pr.author
       /\ pr.author \notin MaintainerSet
       /\ Scanned(pr)[2].typename = "ClosedEvent"
       /\ Scanned(pr)[1].typename = Null
       /\ Scanned(pr)[1].createdAt # Scanned(pr)[2].createdAt
       /\ responseTimes[i].resolvedAt = Number(Scanned(pr)[2].createdAt)
       /\ IsHoursBetween(responseTimes[i].officialResponseHours, pr.createdAt,
                         Scanned(pr)[2].createdAt)

\* C27: in every record, when some event is by a maintainer other than the
\* creator, nonAuthorResponseHours is non-null and is the time of an event not by
\* the creator that is at or before the first such maintainer event; and a
\* record whose official event is the creator's own Closed or Merged event has
\* officialResponseHours non-null with nonAuthorResponseHours null.
C27_MaintainerImpliesNonAuthor ==
  anPc = "done" =>
    \A i \in 1..Len(pullRequests) :
      LET pr == pullRequests[i]
          rec == responseTimes[i]
      IN  /\ MaintainerPositions(pr) # {} =>
               /\ rec.nonAuthorResponseHours # NullNumber
               /\ \E k \in 1..Lowest(MaintainerPositions(pr)) :
                    /\ LoginOf(Scanned(pr)[k]) # pr.author
                    /\ IsHoursBetween(rec.nonAuthorResponseHours, pr.createdAt,
                                      Scanned(pr)[k].createdAt)
          /\ (/\ ResolvedPositions(pr) # {}
              /\ \A k \in 1..Len(Scanned(pr)) : LoginOf(Scanned(pr)[k]) = pr.author) =>
               /\ rec.officialResponseHours # NullNumber
               /\ rec.nonAuthorResponseHours = NullNumber

\* Two records: the first PR has a maintainer's comment and a non-author
\* response time; the second was only merged, by its creator, and has an
\* official response time and no non-author one.
C27_Witness ==
  /\ anPc = "done"
  /\ Len(pullRequests) = 2
  /\ MaintainerPositions(pullRequests[1]) # {}
  /\ responseTimes[1].nonAuthorResponseHours # NullNumber
  /\ Len(Scanned(pullRequests[2])) = 1
  /\ Scanned(pullRequests[2])[1].typename = "MergedEvent"
  /\ LoginOf(Scanned(pullRequests[2])[1]) = pullRequests[2].author
  /\ responseTimes[2].officialResponseHours # NullNumber
  /\ responseTimes[2].nonAuthorResponseHours = NullNumber

\* C28: when every event of a PR has a timestamp at or after the PR's createdAt,
\* the resolution time of its record is not negative, also when the first
\* ReadyForReview event is later than the first Closed or Merged event.
C28_ResolutionNonNegative ==
  anPc = "done" =>
    \A i \in 1..Len(pullRequests) :
      LET pr == pullRequests[i]
          rec == responseTimes[i]
      IN  (/\ \A k \in 1..Len(Scanned(pr)) : Scanned(pr)[k].createdAt >= pr.createdAt
           /\ rec.resolutionTime # NullNumber) =>
            rec.resolutionTime[1] >= 0

(***************************************************************************)
(* Properties of the enrichment.                                           *)
(***************************************************************************)
\* What a collector returns for a sub-fetch: the nodes of the server's pages up
\* to the first that announces no next page (a body without the nested object
\* has no nodes and ends the collection).
FetchedNodes(item, sub) ==
  LET pages == ServerOf(item, sub)
      last == CHOOSE j \in 1..Len(pages) :
                /\ ~pages[j].hasNextPage
                /\ \A i \in 1..(j - 1) : pages[i].hasNextPage
  IN  Flatten([i \in 1..last |-> pages[i].nodes])

CreatedInWindow(items) == SelectSeq(items, LAMBDA i : i.createdAt >= WindowStart)

\* C14: when a sub-task has failed and the enrichment has rejected, no PR of the
\* bundle carries commentDetails, reviewDetails, changedFiles or timelineItems
\* and no bucket carries nodes, directCommits or repoInfo.
C14_NoPartialMerge ==
  enPc = "rejected" =>
    /\ \A k \in 1..Len(enActivity.pullRequests) :
         /\ enActivity.pullRequests[k].commentDetails = <<>>
         /\ enActivity.pullRequests[k].reviewDetails = <<>>
         /\ enActivity.pullRequests[k].changedFiles = <<>>
         /\ enActivity.pullRequests[k].timelineItems = <<>>
    /\ \A k \in 1..Len(enActivity.commitsByRepo) :
         /\ enActivity.commitsByRepo[k].contributions.nodes = <<>>
         /\ enActivity.commitsByRepo[k].contributions.directCommits = <<>>
         /\ enActivity.commitsByRepo[k].repoInfo = <<>>

\* C16: the tasks of a fan-out are launched together: once enrichPullRequestData
\* has been called the first request of each of the 4N sub-fetches is issued,
\* so none is issued after a response was consumed; and the first history
\* request of every bucket is issued as soon as that of any bucket is, before
\* the response to any of them is consumed.
C16_LaunchedTogether ==
  /\ enKind = "pullRequests" =>
       LET n == Len(enInput.pullRequests)
           firsts == {[item |-> k, sub |-> s, cursor |-> 0] :
                        k \in 1..n, s \in {"comments", "reviews", "files", "timeline"}}
       IN  /\ Cardinality(firsts) = 4 * n
           /\ (enPc # "start" \/ enConsumed # {}) => firsts \subseteq enIssued
           /\ (enPc = "awaiting" /\ enConsumed = {}) => enIssued = firsts
  /\ enKind = "commits" =>
       LET m == Len(enInput.commitsByRepo)
           firsts == {[item |-> k, sub |-> "history", cursor |-> 0] : k \in 1..m}
       IN  (\/ \E q \in enIssued : q.item # 0
            \/ \E q \in enConsumed : q.item # 0
            \/ enPc \in {"awaiting", "resolved"}) => firsts \subseteq enIssued

\* The eight first requests of two PRs are outstanding and no response has been
\* consumed.
C16_Witness ==
  /\ enKind = "pullRequests"
  /\ Len(enInput.pullRequests) = 2
  /\ enConsumed = {}
  /\ Cardinality(enIssued) = 8
  /\ \A q \in enIssued : q.cursor = 0

\* C17: after a successful enrichPullRequestData, every PR's commentDetails are
\* the fetched comments created at or after the window start and its
\* reviewDetails the fetched reviews created at or after it, in fetch order; its
\* changedFiles and timelineItems are the fetched lists, unfiltered.
C17_DetailFilters ==
  (enKind = "pullRequests" /\ enPc = "resolved") =>
    \A k \in 1..Len(enActivity.pullRequests) :
      LET pr == enActivity.pullRequests[k]
          comments == CreatedInWindow(FetchedNodes(k, "comments"))
      IN  /\ pr.commentDetails # <<>>
          /\ Len(pr.commentDetails[1]) = Len(comments)
          /\ \A i \in 1..Len(comments) :
               /\ pr.commentDetails[1][i].bodyText = comments[i].bodyText
               /\ pr.commentDetails[1][i].createdAt = comments[i].createdAt
          /\ pr.reviewDetails = <<CreatedInWindow(FetchedNodes(k, "reviews"))>>
          /\ pr.changedFiles = <<FetchedNodes(k, "files")>>
          /\ pr.timelineItems = <<FetchedNodes(k, "timeline")>>

\* The first PR got three comments on two pages and two reviews: the comment and
\* the review older than the window were dropped, the comment created at the
\* very start of the window was kept, and the timeline event older than the
\* window was kept.
C17_Witness ==
  /\ enKind = "pullRequests"
  /\ enPc = "resolved"
  /\ enFault = NoFault
  /\ Len(enActivity.pullRequests) > 0
  /\ LET pr == enActivity.pullRequests[1] IN
     /\ Len(FetchedNodes(1, "comments")) = 3
     /\ Len(pr.commentDetails[1]) = 2
     /\ pr.commentDetails[1][2].createdAt = WindowStart
     /\ Len(pr.reviewDetails[1]) = 1
     /\ Len(pr.timelineItems[1]) = 1
     /\ pr.timelineItems[1][1].createdAt < WindowStart

\* C18: every comment of a PR's commentDetails has lost its reactionGroups; it
\* carries a reactions mapping that holds exactly the kinds whose count is above
\* 0, each with its count, and carries no reactions at all when no group has a
\* count above 0 or there is no group.
C18_ReactionsCollapsed ==
  enKind = "pullRequests" =>
    \A k \in 1..Len(enActivity.pullRequests) :
      enActivity.pullRequests[k].commentDetails # <<>> =>
        LET retained == enActivity.pullRequests[k].commentDetails[1]
            fetched == CreatedInWindow(FetchedNodes(k, "comments"))
        IN  \A i \in 1..Len(retained) :
              LET groups == fetched[i].reactionGroups[1]
                  positive == {j \in 1..Len(groups) : groups[j].totalCount > 0}
              IN  /\ retained[i].reactionGroups = <<>>
                  /\ IF positive = {}
                       THEN retained[i].reactions = <<>>
                       ELSE /\ retained[i].reactions # <<>>
                            /\ DOMAIN retained[i].reactions[1] = {groups[j].content : j \in positive}
                            /\ \A j \in positive :
                                 retained[i].reactions[1][groups[j].content] = groups[j].totalCount

\* Of the first PR's retained comments the one with two thumbs up and no heart
\* carries the mapping of THUMBS_UP to 2 alone, and the one without groups
\* carries no reactions; a comment of the second PR whose groups all have count
\* 0 carries none either.
C18_Witness ==
  /\ enKind = "pullRequests"
  /\ enPc = "resolved"
  /\ Len(enActivity.pullRequests) = 2
  /\ LET first == enActivity.pullRequests[1].commentDetails[1]
         second == enActivity.pullRequests[2].commentDetails[1]
     IN  /\ Len(first) = 2
         /\ DOMAIN first[1].reactions[1] = {"THUMBS_UP"}
         /\ first[1].reactions[1]["THUMBS_UP"] = 2
         /\ first[2].reactions = <<>>
         /\ Len(second) = 2
         /\ second[2].bodyText = "c6"
         /\ second[2].reactions = <<>>

\* C19: enrichment leaves the membership and the order of the bundle's four
\* lists and every primary field of every item as they were passed in, and
\* resolves with the bundle it was given, as mutated.
C19_EnrichmentAdditive ==
  enKind # "idle" =>
    /\ Len(enActivity.pullRequests) = Len(enInput.pullRequests)
    /\ \A k \in 1..Len(enInput.pullRequests) :
         LET before == enInput.pullRequests[k]
             after == enActivity.pullRequests[k]
         IN  /\ after.number = before.number
             /\ after.title = before.title
             /\ after.repository = before.repository
             /\ after.createdAt = before.createdAt
             /\ after.updatedAt = before.updatedAt
             /\ after.state = before.state
             /\ after.comments = before.comments
             /\ after.reviews = before.reviews
    /\ enActivity.reviews = enInput.reviews
    /\ enActivity.issues = enInput.issues
    /\ Len(enActivity.commitsByRepo) = Len(enInput.commitsByRepo)
    /\ \A k \in 1..Len(enInput.commitsByRepo) :
         /\ enActivity.commitsByRepo[k].repository = enInput.commitsByRepo[k].repository
         /\ enActivity.commitsByRepo[k].contributions.totalCount
              = enInput.commitsByRepo[k].contributions.totalCount
    /\ enPc = "resolved" => enResult = <<enActivity>>
    /\ enPc # "resolved" => enResult = <<>>

\* enrichCommitContributions resolved for two buckets: the first carries its two
\* commits, directCommits 2 and its repoInfo, and still its totalCount of 1.
C19_Witness ==
  /\ enKind = "commits"
  /\ enPc = "resolved"
  /\ Len(enActivity.commitsByRepo) = 2
  /\ enActivity.commitsByRepo[1].contributions.directCommits = <<2>>
  /\ Len(enActivity.commitsByRepo[1].contributions.nodes[1]) = 2
  /\ enActivity.commitsByRepo[1].repoInfo # <<>>
  /\ enActivity.commitsByRepo[1].contributions.totalCount = 1
  /\ enActivity.commitsByRepo[2].repoInfo # <<>>

\* The requests a collector (a sub-fetch of an item's task) has issued, and
\* those of them whose response has not arrived.
RequestsOf(item, sub) == {q \in enIssued : q.item = item /\ q.sub = sub}

OutstandingOf(item, sub) == RequestsOf(item, sub) \ enConsumed

\* C23: the requests of one collector are sequential.  Of the requests it has
\* issued one carries the null cursor (0); one that carries another cursor c
\* was issued after the response to the request for page c had arrived, a
\* well-formed page that announced a next page and whose endCursor is c; and at
\* most one of them is without its response, while the requests of other
\* collectors may be outstanding at the same time.
C23_RequestsSequential ==
  /\ enConsumed \subseteq enIssued
  /\ \A q \in enIssued :
       /\ [item |-> q.item, sub |-> q.sub, cursor |-> 0] \in enIssued
       /\ q.cursor > 0 =>
            LET previous == ServerOf(q.item, q.sub)[q.cursor]
            IN  /\ [item |-> q.item, sub |-> q.sub, cursor |-> q.cursor - 1] \in enConsumed
                /\ IsOkPage(previous)
                /\ previous.hasNextPage
       /\ Cardinality(OutstandingOf(q.item, q.sub)) <= 1

\* The comments collector of PR 1 has had its first page and waits for its
\* second, while the first requests of PR 2's collectors are still outstanding.
C23_Witness ==
  /\ enKind = "pullRequests"
  /\ Len(enInput.pullRequests) = 2
  /\ RequestsOf(1, "comments") =
       {[item |-> 1, sub |-> "comments", cursor |-> 0],
        [item |-> 1, sub |-> "comments", cursor |-> 1]}
  /\ OutstandingOf(1, "comments") = {[item |-> 1, sub |-> "comments", cursor |-> 1]}
  /\ OutstandingOf(2, "comments") = {[item |-> 2, sub |-> "comments", cursor |-> 0]}
  /\ OutstandingOf(2, "reviews") = {[item |-> 2, sub |-> "reviews", cursor |-> 0]}

\* What the server's responses make of a fetched comment, of PR k and of bucket
\* k, whatever the order of their arrival.
CollapsedComment(c) ==
  LET groups == c.reactionGroups[1]
      positive == {j \in 1..Len(groups) : groups[j].totalCount > 0}
      kinds == {groups[j].content : j \in positive}
      counts == [x \in kinds |->
                   groups[CHOOSE j \in positive : groups[j].content = x].totalCount]
  IN  [c EXCEPT !.reactionGroups = <<>>,
                !.reactions = IF positive = {} THEN @ ELSE <<counts>>]

EnrichedPR(k) ==
  LET comments == CreatedInWindow(FetchedNodes(k, "comments"))
  IN  [enInput.pullRequests[k] EXCEPT
         !.commentDetails = <<[i \in 1..Len(comments) |-> CollapsedComment(comments[i])]>>,
         !.reviewDetails = <<CreatedInWindow(FetchedNodes(k, "reviews"))>>,
         !.changedFiles = <<FetchedNodes(k, "files")>>,
         !.timelineItems = <<FetchedNodes(k, "timeline")>>]

BucketWithCommits(k) ==
  LET commits == FetchedNodes(k, "history")
  IN  [enInput.commitsByRepo[k] EXCEPT !.contributions.nodes = <<commits>>,
                                       !.contributions.directCommits = <<Len(commits)>>]

EnrichedBucket(k) ==
  LET info == ServerOf(k, "repoInfo")[1]
  IN  [BucketWithCommits(k) EXCEPT
         !.repoInfo = IF info.present THEN << <<info.nodes[1]>> >> ELSE << <<>> >>]

====
